---- MODULE Spec2Model ----
(***************************************************************************)
(* Model of the BuildXL Linux sandbox interposition layer                  *)
(* (Public/Src/Sandbox/Linux/detours.cpp and bxl_observer.hpp).            *)
(*                                                                         *)
(* An intercepted call is one action: normalise, build the access report,  *)
(* ask the policy, forward or deny, set the report's errno, send, return.  *)
(* The real libc function and the file system are the environment: their   *)
(* outcome is an input of the action.  Paths are sequences of components   *)
(* and are canonical already.                                              *)
(***************************************************************************)
EXTENDS Integers, Sequences, FiniteSets, TLC

VARIABLES
    failUnexpected,   \* FAM flag FailUnexpectedFileAccesses (pip_->GetFamFlags())
    breakaway,        \* pip_->AllowChildProcessesToBreakAway()
    isRootPid,        \* getpid() == rootPid_
    errno,            \* the calling thread's errno
    cache,            \* BxlObserver::cache_ as a set of <<event, path, secondPath>>
    last,             \* what the most recent intercepted call did
    ncalls,           \* number of intercepted calls made so far
    proc,             \* the process tree: pid -> state of that process
    channel,          \* the reporting pipe: the records written so far, in order
    fds,              \* descriptors: fdTable_, the kernel's view, the last event seen
    obs               \* the observer singleton and the process around it

engineVars == <<failUnexpected, breakaway, isRootPid, errno, cache, last, ncalls>>
procVars == <<proc, channel>>
fdVars == <<fds>>
obsVars == <<obs>>
vars == <<failUnexpected, breakaway, isRootPid, errno, cache, last, ncalls, proc, channel, fds,
          obs>>

----------------------------------------------------------------------------
(* errno values and return sentinels *)

EPERM == 1
ENOENT == 2
EIO == 5
EBADF == 9
EINVAL == 22
EMFILE == 24
ERROR_RETURN_VALUE == -1
NULL == 0

(* Bounds of the model *)
MaxCalls == 2
MaxPid == 3
MaxChannel == 5
MaxThreads == 2
MaxFd == 4
MaxFdCalls == 4
MaxEarlyCalls == 3
MtxBudget == 2
MaxLinks == 3
MaxDepth == 2
MaxDirCalls == 3
OffBits == 4

----------------------------------------------------------------------------
(* Environment: paths, descriptors, policy *)

EmptyPath == <<>>
OkPath == <<"ok">>
DenyPath == <<"deny">>
CallPaths == {OkPath, DenyPath}

\* Descriptors the guest holds: stdout redirected to /ok, 3 open on /deny.
Fds == {1, 3}
fd_to_path(fd) == IF fd = 1 THEN OkPath ELSE IF fd = 3 THEN DenyPath ELSE EmptyPath

\* The manifest: everything below /deny is denied, and so is /d/b.
PolicyDenies(path) ==
    /\ path # EmptyPath
    /\ \/ path[1] = "deny"
       \/ path = <<"d", "b">>

\* AccessCheckResult
Invalid == [deny |-> FALSE, checked |-> FALSE]
sNotChecked == Invalid
PolicyCheck(event, path) == [deny |-> PolicyDenies(path), checked |-> TRUE]
Combine(a, b) == [deny |-> a.deny \/ b.deny, checked |-> a.checked \/ b.checked]

----------------------------------------------------------------------------
(* Real functions: what the unhooked libc call can do.                     *)
(* ret: the value returned; failed: whether the call failed; err: the      *)
(* errno a failed call sets (a call that does not fail leaves errno alone) *)

RealOk(v) == [ret |-> v, failed |-> FALSE, err |-> 0]
RealFail(v, e) == [ret |-> v, failed |-> TRUE, err |-> e]
NoReal == [ret |-> 0, failed |-> FALSE, err |-> 0]

\* int functions that return -1 on failure (chmod, stat, write, vprintf, ...)
RealPathCall == {RealOk(0), RealFail(-1, ENOENT)}
RealFdCall == {RealOk(1), RealFail(-1, EBADF)}
\* fread/fwrite: item count; 0 at end of file (or nmemb = 0) and on error
RealFread == {RealOk(1), RealOk(0), RealFail(0, EBADF)}
\* readdir: entry pointer; NULL at end of directory and on error
RealReaddir == {RealOk(1), RealOk(NULL), RealFail(NULL, EBADF)}
\* readdir_r: 0 on success, the error number on failure
RealReaddirR == {RealOk(0), RealFail(EBADF, EBADF)}

----------------------------------------------------------------------------
(* Observer *)

IsEnabled == ~(breakaway /\ ~isRootPid)

IsFailingUnexpectedAccesses == failUnexpected

\* Mutant: the denial does not ask whether the observer is enabled
should_deny_WhateverTheProcess(check) == check.deny /\ IsFailingUnexpectedAccesses

should_deny(check) == IsEnabled /\ check.deny /\ IsFailingUnexpectedAccesses

\* AccessReportGroup: the reports built for one call and the errno they carry
EmptyGroup == [reports |-> <<>>, error |-> 0]

AccessReport(event, path, check) ==
    [op |-> event, path |-> path,
     status |-> IF check.deny THEN "denied" ELSE "allowed"]

SetErrno(group, e) == [group EXCEPT !.error = e]

\* The records SendReport writes for a group: one line per report of the group
GroupRecords(group) ==
    [i \in DOMAIN group.reports |->
        [op |-> group.reports[i].op, path |-> group.reports[i].path,
         status |-> group.reports[i].status, error |-> group.error]]

\* IsCacheHit: insert the tuple, answer whether it was there already
IsCacheHit(c, event, path, secondPath) ==
    [hit |-> <<event, path, secondPath>> \in c,
     cache |-> c \cup {<<event, path, secondPath>>}]

\* create_access: dedup, then the policy check and the report for the event
create_access(c, event, path, secondPath, checkCache) ==
    LET h == IsCacheHit(c, event, path, secondPath)
        chk == PolicyCheck(event, path)
    IN  IF checkCache /\ h.hit
        THEN [check |-> sNotChecked, group |-> EmptyGroup, cache |-> h.cache, hit |-> TRUE]
        ELSE IF secondPath = EmptyPath
        THEN [check |-> chk,
              group |-> [reports |-> <<AccessReport(event, path, chk)>>, error |-> 0],
              cache |-> IF checkCache THEN h.cache ELSE c,
              hit |-> FALSE]
        ELSE [check |-> Combine(chk, PolicyCheck(event, secondPath)),
              group |-> [reports |-> <<AccessReport(event, path, chk),
                                       AccessReport(event, secondPath,
                                                    PolicyCheck(event, secondPath))>>,
                         error |-> 0],
              cache |-> IF checkCache THEN h.cache ELSE c,
              hit |-> FALSE]

create_access_fd(c, event, fd) == create_access(c, event, fd_to_path(fd), EmptyPath, TRUE)

\* report_access(syscall, event, pathname, mode, oflags, error, checkCache):
\* create the access, set its errno, send it.  mode and oflags only steer
\* normalisation.
report_access(c, event, pathname, mode, oflags, error, checkCache) ==
    LET a == create_access(c, event, pathname, EmptyPath, checkCache)
    IN  [cache |-> a.cache, hit |-> a.hit, sent |-> <<SetErrno(a.group, error)>>]

report_access_fd(c, event, fd, error) ==
    report_access(c, event, fd_to_path(fd), 0, 0, error, TRUE)

----------------------------------------------------------------------------
(* GEN_FN_DEF: the three helpers generated for every real function *)

\* result_t(result): the result with the errno found right after the call
fwd(real, e) == [result |-> real.ret, my_errno |-> IF real.failed THEN real.err ELSE e]

\* Mutant: the denial is built with result_t(error_val), which captures the
\* current errno instead of EPERM
check_fwd_and_report_DenyKeepsErrno(report, check, error_val, real, e) ==
    LET deny == should_deny(check)
        return_value == IF deny THEN [result |-> error_val, my_errno |-> e]
                                ELSE fwd(real, e)
        g == SetErrno(report, IF return_value.result = error_val
                              THEN return_value.my_errno ELSE 0)
    IN  [ret |-> return_value.result,
         errno |-> return_value.my_errno,
         denied |-> deny,
         realCalls |-> IF deny THEN 0 ELSE 1,
         sent |-> <<g>>]

check_fwd_and_report(report, check, error_val, real, e) ==
    LET deny == should_deny(check)
        return_value == IF deny THEN [result |-> error_val, my_errno |-> EPERM]
                                ELSE fwd(real, e)
        g == SetErrno(report, IF return_value.result = error_val
                              THEN return_value.my_errno ELSE 0)
    IN  [ret |-> return_value.result,
         errno |-> return_value.my_errno,      \* return_value.restore()
         denied |-> deny,
         realCalls |-> IF deny THEN 0 ELSE 1,
         sent |-> <<g>>]

fwd_and_report(report, error_val, real, e) ==
    LET return_value == fwd(real, e)
        g == SetErrno(report, IF return_value.result = error_val
                              THEN return_value.my_errno ELSE 0)
    IN  [ret |-> return_value.result,
         errno |-> return_value.my_errno,
         denied |-> FALSE,
         realCalls |-> 1,
         sent |-> <<g>>]

get_errno_from_result(result) == IF result.result = -1 THEN result.my_errno ELSE 0

----------------------------------------------------------------------------
(* The record kept of a finished call *)

NoCall ==
    [w |-> "none", event |-> "", path |-> EmptyPath, pre |-> 0, polDeny |-> FALSE, hit |-> FALSE,
     denied |-> FALSE, realCalls |-> 0, real |-> NoReal, sent |-> <<>>,
     ret |-> 0, error_val |-> 0, closes |-> <<>>]

\* w: wrapper; event, path: the event's kind and path; e: errno on entry; hit: dedup hit;
\* r: [ret, errno, denied, realCalls, sent]; real: what the real call did
Finished(w, event, path, e, c, hit, r, real, error_val) ==
    [cache |-> c,
     errno |-> r.errno,
     last |-> [w |-> w, event |-> event, path |-> path, pre |-> e,
               polDeny |-> PolicyDenies(path),
               hit |-> hit, denied |-> r.denied, realCalls |-> r.realCalls,
               real |-> IF r.realCalls = 0 THEN NoReal ELSE real,
               sent |-> r.sent, ret |-> r.ret, error_val |-> error_val,
               closes |-> <<>>]]

RECURSIVE Flatten(_)
Flatten(groups) ==
    IF groups = <<>> THEN <<>>
    ELSE GroupRecords(Head(groups)) \o Flatten(Tail(groups))

\* The records the last call wrote to the channel
Records == Flatten(last.sent)

----------------------------------------------------------------------------
(* Wrappers built on check_fwd_and_report *)

chmod(c, e, pathname, real) ==
    LET a == create_access(c, "SETMODE", pathname, EmptyPath, TRUE)
        r == check_fwd_and_report(a.group, a.check, ERROR_RETURN_VALUE, real, e)
    IN  Finished("chmod", "SETMODE", pathname, e, a.cache, a.hit, r, real, ERROR_RETURN_VALUE)

write(c, e, fd, real) ==
    LET a == create_access_fd(c, "WRITE", fd)
        r == check_fwd_and_report(a.group, a.check, ERROR_RETURN_VALUE, real, e)
    IN  Finished("write", "WRITE", fd_to_path(fd), e, a.cache, a.hit, r, real, ERROR_RETURN_VALUE)

fread(c, e, fd, real) ==
    LET a == create_access_fd(c, "OPEN", fd)
        r == check_fwd_and_report(a.group, a.check, 0, real, e)
    IN  Finished("fread", "OPEN", fd_to_path(fd), e, a.cache, a.hit, r, real, 0)

readdir(c, e, fd, real) ==
    LET a == create_access_fd(c, "READDIR", fd)
        r == check_fwd_and_report(a.group, a.check, NULL, real, e)
    IN  Finished("readdir", "READDIR", fd_to_path(fd), e, a.cache, a.hit, r, real, NULL)

readdir_r(c, e, fd, real) ==
    LET a == create_access_fd(c, "READDIR", fd)
        r == check_fwd_and_report(a.group, a.check, ERROR_RETURN_VALUE, real, e)
    IN  Finished("readdir_r", "READDIR", fd_to_path(fd), e, a.cache, a.hit, r, real, ERROR_RETURN_VALUE)

CheckFwdWrappers == {"chmod", "write", "fread", "readdir", "readdir_r"}

----------------------------------------------------------------------------
(* The stat family: forward first, then report_access with the errno *)

O_NOFOLLOW == 131072

\* glibc >= 2.33: stat, stat64, lstat, lstat64
stat(c, e, pathname, real) ==
    LET result == fwd(real, e)
        s == report_access(c, "STAT", pathname, 0, O_NOFOLLOW,
                           get_errno_from_result(result), TRUE)
        r == [ret |-> result.result, errno |-> result.my_errno, denied |-> FALSE,
              realCalls |-> 1, sent |-> s.sent]
    IN  Finished("stat", "STAT", pathname, e, s.cache, s.hit, r, real, ERROR_RETURN_VALUE)

\* glibc < 2.33: __xstat, __xstat64.  The call passes four arguments after the
\* event type, so get_errno_from_result(result) lands in oflags and error
\* keeps its default, 0.
xstat(c, e, pathname, real) ==
    LET result == fwd(real, e)
        s == report_access(c, "STAT", pathname, 0, get_errno_from_result(result),
                           0, TRUE)
        r == [ret |-> result.result, errno |-> result.my_errno, denied |-> FALSE,
              realCalls |-> 1, sent |-> s.sent]
    IN  Finished("__xstat", "STAT", pathname, e, s.cache, s.hit, r, real, ERROR_RETURN_VALUE)

\* fstat, fstat64, __fxstat, __fxstat64
fstat(c, e, fd, real) ==
    LET result == fwd(real, e)
        s == report_access_fd(c, "STAT", fd, get_errno_from_result(result))
        r == [ret |-> result.result, errno |-> result.my_errno, denied |-> FALSE,
              realCalls |-> 1, sent |-> s.sent]
    IN  Finished("fstat", "STAT", fd_to_path(fd), e, s.cache, s.hit, r, real, ERROR_RETURN_VALUE)

StatWrappers == {"stat", "__xstat", "fstat"}

----------------------------------------------------------------------------
(* The printf family *)

\* vprintf: the access is created for descriptor 1, the check is dropped and
\* the report group is never sent
vprintf(c, e, real) ==
    LET a == create_access_fd(c, "WRITE", 1)
        result == fwd(real, e)
        r == [ret |-> result.result, errno |-> result.my_errno, denied |-> FALSE,
              realCalls |-> 1, sent |-> <<>>]
    IN  Finished("vprintf", "WRITE", fd_to_path(1), e, a.cache, a.hit, r, real, ERROR_RETURN_VALUE)

\* vfprintf: the same for fileno(f)
vfprintf(c, e, fd, real) ==
    LET a == create_access_fd(c, "WRITE", fd)
        result == fwd(real, e)
        r == [ret |-> result.result, errno |-> result.my_errno, denied |-> FALSE,
              realCalls |-> 1, sent |-> <<>>]
    IN  Finished("vfprintf", "WRITE", fd_to_path(fd), e, a.cache, a.hit, r, real, ERROR_RETURN_VALUE)

\* vdprintf: fwd_and_report, the check is dropped
vdprintf(c, e, fd, real) ==
    LET a == create_access_fd(c, "WRITE", fd)
        r == fwd_and_report(a.group, -1, real, e)
    IN  Finished("vdprintf", "WRITE", fd_to_path(fd), e, a.cache, a.hit, r, real, ERROR_RETURN_VALUE)

\* printf: result_t<int> result = vprintf(fmt, args); return result.restore()
printf(c, e, real) ==
    LET v == vprintf(c, e, real)
    IN  [v EXCEPT !.last.w = "printf"]

\* fprintf: the same over vfprintf
fprintf(c, e, fd, real) ==
    LET v == vfprintf(c, e, fd, real)
    IN  [v EXCEPT !.last.w = "fprintf"]

PrintfWrappers == {"vprintf", "vfprintf", "vdprintf", "printf", "fprintf"}

----------------------------------------------------------------------------
(* open flags and CreateFileOpen *)

\* oflag: [creat, trunc: BOOLEAN, acc: "O_RDONLY" | "O_WRONLY" | "O_RDWR"]
O_CREAT_WRONLY == [creat |-> TRUE, trunc |-> FALSE, acc |-> "O_WRONLY"]

\* Mutant: an existing path opened with O_CREAT or O_TRUNC is a write whatever
\* the access mode
OpenEventType_AnyAccessMode(pathExists, oflag) ==
    LET isCreate == ~pathExists /\ (oflag.creat \/ oflag.trunc)
        isWrite == pathExists /\ (oflag.creat \/ oflag.trunc)
    IN  IF isCreate THEN "CREATE" ELSE IF isWrite THEN "WRITE" ELSE "OPEN"

\* pathExists: get_mode(pathStr) != 0, read from the file system
OpenEventType(pathExists, oflag) ==
    LET isCreate == ~pathExists /\ (oflag.creat \/ oflag.trunc)
        hasWriteAccess == oflag.acc = "O_WRONLY" \/ oflag.acc = "O_RDWR"
        isWrite == pathExists /\ ((oflag.creat \/ oflag.trunc) /\ hasWriteAccess)
    IN  IF isCreate THEN "CREATE" ELSE IF isWrite THEN "WRITE" ELSE "OPEN"

CreateFileOpen(c, pathStr, oflag, pathExists) ==
    create_access(c, OpenEventType(pathExists, oflag), pathStr, EmptyPath, TRUE)

----------------------------------------------------------------------------
(* renameat / rename *)

\* fileOrDirectory.replace(0, oldStr.length(), newStr)
ReplacePrefix(fileOrDirectory, oldStr, newStr) ==
    newStr \o SubSeq(fileOrDirectory, Len(oldStr) + 1, Len(fileOrDirectory))

\* The loop over the enumerated entries.  acc: accessesToReport so far;
\* check: the check of the last entry visited.  Stops at the first entry
\* whose combined check must be denied.
RECURSIVE RenameLoop(_, _, _, _, _, _, _)
RenameLoop(c, entries, oldStr, newStr, targetExists, acc, check) ==
    IF entries = <<>> THEN [cache |-> c, acc |-> acc, check |-> check]
    ELSE LET src == create_access(c, "UNLINK", Head(entries), EmptyPath, TRUE)
             dst == CreateFileOpen(src.cache, ReplacePrefix(Head(entries), oldStr, newStr),
                                   O_CREAT_WRONLY, targetExists)
             chk == Combine(src.check, dst.check)
             acc2 == acc \o <<src.group, dst.group>>
         IN  IF should_deny(chk)
             THEN [cache |-> dst.cache, acc |-> acc2, check |-> chk]
             ELSE RenameLoop(dst.cache, Tail(entries), oldStr, newStr, targetExists,
                             acc2, chk)

\* Mutant: a directory whose enumeration failed is checked like a file,
\* source and destination apart
RenameChecks_NoFallback(c, oldStr, newStr, isDir, enumerateResult, entries, targetExists) ==
    IF isDir /\ enumerateResult
    THEN RenameLoop(c, entries, oldStr, newStr, targetExists, <<>>, Invalid)
    ELSE LET src == create_access(c, "UNLINK", oldStr, EmptyPath, TRUE)
             dst == CreateFileOpen(src.cache, newStr, O_CREAT_WRONLY, targetExists)
         IN  [cache |-> dst.cache, acc |-> <<src.group, dst.group>>,
              check |-> Combine(src.check, dst.check)]

\* The checks of renameat: the enumerated entries of a directory, a single
\* RENAME event when the enumeration failed, source and destination otherwise
RenameChecks(c, oldStr, newStr, isDir, enumerateResult, entries, targetExists) ==
    IF isDir /\ enumerateResult
    THEN RenameLoop(c, entries, oldStr, newStr, targetExists, <<>>, Invalid)
    ELSE IF isDir
    THEN LET a == create_access(c, "RENAME", oldStr, newStr, TRUE)
         IN  [cache |-> a.cache, acc |-> <<a.group>>, check |-> a.check]
    ELSE LET src == create_access(c, "UNLINK", oldStr, EmptyPath, TRUE)
             dst == CreateFileOpen(src.cache, newStr, O_CREAT_WRONLY, targetExists)
         IN  [cache |-> dst.cache, acc |-> <<src.group, dst.group>>,
              check |-> Combine(src.check, dst.check)]

\* Mutant: the buffered accesses are sent as they were built
SetErrnoAll_Unset(acc, e) == acc

\* access.SetErrno(get_errno_from_result(result)) for every buffered access
SetErrnoAll(acc, e) == [i \in DOMAIN acc |-> SetErrno(acc[i], e)]

renameat(c, e, oldStr, newStr, isDir, enumerateResult, entries, targetExists, real) ==
    LET k == RenameChecks(c, oldStr, newStr, isDir, enumerateResult, entries, targetExists)
        deny == should_deny(k.check)
        result == IF deny THEN [result |-> ERROR_RETURN_VALUE, my_errno |-> EPERM]
                          ELSE fwd(real, e)
        sent == IF deny THEN <<k.acc[Len(k.acc)]>>       \* accessesToReport.back()
                        ELSE SetErrnoAll(k.acc, get_errno_from_result(result))
    IN  [cache |-> k.cache,
         errno |-> result.my_errno,                       \* result.restore()
         last |-> [w |-> "renameat", event |-> "RENAME", path |-> oldStr, pre |-> e,
                   polDeny |-> k.check.deny, hit |-> FALSE, denied |-> deny,
                   realCalls |-> IF deny THEN 0 ELSE 1,
                   real |-> IF deny THEN NoReal ELSE real,
                   sent |-> sent, ret |-> result.result,
                   error_val |-> ERROR_RETURN_VALUE, closes |-> <<>>,
                   newStr |-> newStr, isDir |-> isDir,
                   enumerateResult |-> enumerateResult,
                   filesAndDirectories |-> entries]]

\* rename(oldpath, newpath) is renameat(AT_FDCWD, oldpath, AT_FDCWD, newpath)
rename(c, e, oldStr, newStr, isDir, enumerateResult, entries, targetExists, real) ==
    LET v == renameat(c, e, oldStr, newStr, isDir, enumerateResult, entries,
                      targetExists, real)
    IN  [v EXCEPT !.last.w = "rename"]

----------------------------------------------------------------------------
(* copy_file_range, implemented over pipe and splice *)

\* off64_t is a signed integer of OffBits bits here, size_t an unsigned one:
\* off64_t + size_t is computed modulo 2^OffBits and stored back as off64_t
ToOff64(x) ==
    LET m == x % (2 ^ OffBits)
    IN  IF m >= 2 ^ (OffBits - 1) THEN m - 2 ^ OffBits ELSE m

\* Check for overlapped range (fd_in == fd_out)
RangesOverlap(start_off_in, start_off_out, len) ==
    LET end_off_in == ToOff64(start_off_in + len)
        end_off_out == ToOff64(start_off_out + len)
    IN  \/ (start_off_in <= end_off_out /\ end_off_in >= start_off_out)
        \/ (start_off_out <= end_off_in /\ end_off_out >= start_off_in)

\* The interposed close: reset_fd_table_entry(fd); fwd_close(fd).restore().
\* ok: whether the real close succeeded.  Gives the errno afterwards.
close_errno(e, ok) == IF ok THEN e ELSE EBADF

\* env: [pipeOk, splice1Ok, splice2Ok: whether pipe and the two splices
\* succeed; close0Ok, close1Ok: whether closing the values found in the
\* uninitialised pipefd succeeds (they may name descriptors of the guest)]
copy_file_range(c, e, fd_in, off_in, fd_out, off_out, len, flags, env) ==
    LET a == create_access_fd(c, "WRITE", fd_out)
        deny == should_deny(a.check)
        early == deny \/ flags # 0 \/ (fd_in = fd_out /\ RangesOverlap(off_in, off_out, len))
        \* result and errno on reaching the exit label
        atExit ==
            IF deny THEN [result |-> ERROR_RETURN_VALUE, errno |-> EPERM]
            ELSE IF early THEN [result |-> ERROR_RETURN_VALUE, errno |-> EINVAL]
            ELSE IF ~env.pipeOk THEN [result |-> -1, errno |-> EMFILE]
            ELSE IF ~env.splice1Ok THEN [result |-> -1, errno |-> EBADF]
            ELSE IF ~env.splice2Ok THEN [result |-> -1, errno |-> EIO]
            ELSE [result |-> len, errno |-> 0]
        pipeCreated == ~early /\ env.pipeOk
        \* close(pipefd[0]); close(pipefd[1])
        e1 == close_errno(atExit.errno, pipeCreated \/ env.close0Ok)
        e2 == close_errno(e1, pipeCreated \/ env.close1Ok)
        g == SetErrno(a.group, IF atExit.result = -1 THEN e2 ELSE 0)
    IN  [cache |-> a.cache,
         errno |-> e2,
         last |-> [w |-> "copy_file_range", event |-> "WRITE",
                   path |-> fd_to_path(fd_out), pre |-> e,
                   polDeny |-> PolicyDenies(fd_to_path(fd_out)), hit |-> a.hit,
                   denied |-> deny,
                   realCalls |-> IF early THEN 0 ELSE 1,
                   real |-> IF early THEN NoReal
                            ELSE IF atExit.result = -1 THEN RealFail(-1, atExit.errno)
                            ELSE RealOk(len),
                   sent |-> <<g>>, ret |-> atExit.result,
                   error_val |-> ERROR_RETURN_VALUE,
                   closes |-> IF pipeCreated THEN <<"pipe", "pipe">>
                              ELSE <<"uninitialised", "uninitialised">>]]

\* The overlap check on its own: file offsets (never negative) and lengths
\* of the whole width
OverlapOffsets == 0 .. (2 ^ (OffBits - 1) - 1)
OverlapLengths == 0 .. (2 ^ OffBits - 1)

HandWrittenWrappers == {"renameat", "rename", "copy_file_range"}

----------------------------------------------------------------------------
(* Actions *)

Step(o) ==
    /\ ncalls < MaxCalls
    /\ ncalls' = ncalls + 1
    /\ cache' = o.cache
    /\ errno' = o.errno
    /\ last' = o.last
    /\ UNCHANGED <<failUnexpected, breakaway, isRootPid>>
    /\ UNCHANGED <<procVars, fdVars, obsVars>>

Chmod == \E p \in CallPaths, real \in RealPathCall : Step(chmod(cache, errno, p, real))
Write == \E fd \in Fds, real \in RealFdCall : Step(write(cache, errno, fd, real))
Fread == \E fd \in Fds, real \in RealFread : Step(fread(cache, errno, fd, real))
Readdir == \E fd \in Fds, real \in RealReaddir : Step(readdir(cache, errno, fd, real))
ReaddirR == \E fd \in Fds, real \in RealReaddirR : Step(readdir_r(cache, errno, fd, real))
Stat == \E p \in CallPaths, real \in RealPathCall : Step(stat(cache, errno, p, real))
XStat == \E p \in CallPaths, real \in RealPathCall : Step(xstat(cache, errno, p, real))
FStat == \E fd \in Fds, real \in RealFdCall : Step(fstat(cache, errno, fd, real))
VPrintf == \E real \in RealFdCall : Step(vprintf(cache, errno, real))
VFPrintf == \E fd \in Fds, real \in RealFdCall : Step(vfprintf(cache, errno, fd, real))
VDPrintf == \E fd \in Fds, real \in RealFdCall : Step(vdprintf(cache, errno, fd, real))
Printf == \E real \in RealFdCall : Step(printf(cache, errno, real))
FPrintf == \E fd \in Fds, real \in RealFdCall : Step(fprintf(cache, errno, fd, real))

\* What renameat can find: the source is /d (a directory holding a and b) or
\* /ok (a file); the destination is /n or /deny
RenameSources == {<<"d">>, OkPath}
RenameTargets == {<<"n">>, DenyPath}
EnumLists(oldStr) == {<<oldStr>>, <<oldStr, oldStr \o <<"a">>, oldStr \o <<"b">>>>}
RenameInputs ==
    {[old |-> o, new |-> n, isDir |-> FALSE, enum |-> FALSE, entries |-> <<>>, exists |-> x] :
        o \in RenameSources, n \in RenameTargets, x \in BOOLEAN}
    \cup
    {[old |-> o, new |-> n, isDir |-> TRUE, enum |-> FALSE, entries |-> <<>>, exists |-> FALSE] :
        o \in RenameSources, n \in RenameTargets}
    \cup
    UNION {{[old |-> o, new |-> n, isDir |-> TRUE, enum |-> TRUE, entries |-> l, exists |-> x] :
              n \in RenameTargets, x \in BOOLEAN, l \in EnumLists(o)} : o \in RenameSources}

Renameat ==
    \E i \in RenameInputs, real \in RealPathCall :
        Step(renameat(cache, errno, i.old, i.new, i.isDir, i.enum, i.entries, i.exists, real))

Rename ==
    \E i \in RenameInputs, real \in RealPathCall :
        Step(rename(cache, errno, i.old, i.new, i.isDir, i.enum, i.entries, i.exists, real))

Offsets == 0..1
Lengths == 0..1
\* pipe fails (or is never reached) and the two closes meet whatever pipefd
\* holds; or pipe succeeds, the splices go either way and the closes succeed
CopyEnvs ==
    {[pipeOk |-> FALSE, splice1Ok |-> FALSE, splice2Ok |-> FALSE,
      close0Ok |-> c0, close1Ok |-> c1] : c0 \in BOOLEAN, c1 \in BOOLEAN}
    \cup
    {[pipeOk |-> TRUE, splice1Ok |-> s1, splice2Ok |-> s2,
      close0Ok |-> TRUE, close1Ok |-> TRUE] : s1 \in BOOLEAN, s2 \in BOOLEAN}

CopyFileRange ==
    \E fd_in \in Fds, fd_out \in Fds, off_in \in Offsets, off_out \in Offsets,
       len \in Lengths, flags \in {0, 1}, env \in CopyEnvs :
        Step(copy_file_range(cache, errno, fd_in, off_in, fd_out, off_out, len, flags, env))

\* copy_file_range(fd, &off_in, fd, &off_out, len, 0) on one descriptor the
\* policy allows, up to the overlap check
CheckOverlap ==
    \E off_in \in OverlapOffsets, off_out \in OverlapOffsets, len \in OverlapLengths :
        /\ last = NoCall
        /\ last' = [off_in |-> off_in, off_out |-> off_out, len |-> len,
                    EINVAL |-> RangesOverlap(off_in, off_out, len)] @@
                   [NoCall EXCEPT !.w = "copy_file_range overlap check"]
        /\ UNCHANGED <<failUnexpected, breakaway, isRootPid, errno, cache, ncalls,
                       procVars, fdVars, obsVars>>

\* The flag combinations a process can run under
Configs ==
    {[fail |-> TRUE, breakaway |-> FALSE, root |-> TRUE],
     [fail |-> FALSE, breakaway |-> FALSE, root |-> TRUE],
     [fail |-> TRUE, breakaway |-> TRUE, root |-> FALSE]}

\* Descriptors the model follows through open, close and dup
TrackedFds == 3 .. MaxFd
\* table: fdTable_; open: the file each descriptor is open on in the kernel
\* (EmptyPath: closed); ev: the last intercepted event on the descriptor;
\* closing: the descriptor a thread is closing, between the reset of its
\* entry and the real close (0: none)
FdsInit ==
    [table |-> [fd \in TrackedFds |-> EmptyPath],
     open |-> [fd \in TrackedFds |-> EmptyPath],
     ev |-> [fd \in TrackedFds |-> "none"],
     closing |-> 0]

\* No process exists yet
\* instance: BxlObserver::GetInstance() has built the singleton; run: the
\* process is "running", has been "killed" by a fault or has "exited";
\* status: its exit status; stderr: what was written to stderr; depth: nested
\* entries into the interposed _exit
\* mtx: who holds cacheMtx_ ("free", "caller", "other"); pc, budget, arg,
\* acquired: where a call that is inside IsCacheHit stands; building: the
\* constructor of the singleton is running; envSet: the environment
\* variables the constructor needs are set
ObsReady ==
    [instance |-> TRUE, run |-> "running", status |-> 0, stderr |-> <<>>, depth |-> 0,
     mtx |-> "free", pc |-> "idle", budget |-> 0, arg |-> <<>>, acquired |-> FALSE,
     building |-> FALSE, envSet |-> TRUE]

NoProc == [state |-> "none", cache |-> {}, threads |-> 0, origin |-> "none"]
ProcIdle == [p \in 1..MaxPid |-> NoProc]

Init ==
    /\ \E cfg \in Configs :
        /\ failUnexpected = cfg.fail
        /\ breakaway = cfg.breakaway
        /\ isRootPid = cfg.root
    /\ errno \in {0, EIO}
    /\ cache = {}
    /\ last = NoCall
    /\ ncalls = 0
    /\ proc = ProcIdle
    /\ channel = <<>>
    /\ fds = FdsInit
    /\ obs = ObsReady

Next ==
    \/ Chmod
    \/ Write
    \/ Fread
    \/ Readdir
    \/ ReaddirR
    \/ Stat
    \/ XStat
    \/ FStat
    \/ VPrintf
    \/ VFPrintf
    \/ VDPrintf
    \/ Printf
    \/ FPrintf

Spec == Init /\ [][Next]_vars

\* Every combination of the three flags: the root process and a child of
\* it, with and without leave for children to break away
InitBreakaway ==
    /\ failUnexpected \in BOOLEAN
    /\ breakaway \in BOOLEAN
    /\ isRootPid \in BOOLEAN
    /\ errno \in {0, EIO}
    /\ cache = {}
    /\ last = NoCall
    /\ ncalls = 0
    /\ proc = ProcIdle
    /\ channel = <<>>
    /\ fds = FdsInit
    /\ obs = ObsReady

SpecBreakaway == InitBreakaway /\ [][Next]_vars

\* The overlap check of copy_file_range alone
NextOverlap == CheckOverlap

SpecOverlap == Init /\ [][NextOverlap]_vars

\* The wrappers with a hand-written denial branch
NextRenameCopy ==
    \/ Renameat
    \/ Rename
    \/ CopyFileRange

SpecRenameCopy == Init /\ [][NextRenameCopy]_vars

\* renameat and rename alone
NextRename ==
    \/ Renameat
    \/ Rename

SpecRename == Init /\ [][NextRename]_vars

----------------------------------------------------------------------------
(* Process lifecycle: library load, fork, clone, threads, _exit, exit.     *)
(* proc[p].state is where process p stands: "none" (no such process),      *)
(* "loading" (the constructor has not run), "forked" (the real fork has    *)
(* returned 0 in the child and the wrapper's child branch is still to      *)
(* run), "running", "exiting" (the EXIT report is out and the process has  *)
(* not terminated yet), "dead".  proc[p].cache is that process's copy of   *)
(* cache_; fork and clone copy the parent's memory into the child.         *)

ExePath == <<"bin", "tool">>

\* One line of the channel: BuildReport prints the pid in front of the report
Stamp(pid, records) ==
    [i \in DOMAIN records |-> [pid |-> pid, op |-> records[i].op, path |-> records[i].path]]

\* _bxl_linux_sandbox_init: on_exit(report_exit), then the EXEC report
_bxl_linux_sandbox_init(c) == report_access(c, "EXEC", ExePath, 0, 0, 0, TRUE)

\* report_child_process: report_access(syscall, event) with a FORK event on
\* the program path; checkCache keeps its default, true
report_child_process(c) == report_access(c, "FORK", ExePath, 0, 0, 0, TRUE)

\* fork after the real call: childPid is what real fork returned here
fork(c, childPid) ==
    IF childPid = 0
    THEN report_child_process(c)
    ELSE [cache |-> c, hit |-> FALSE, sent |-> <<>>]

\* clone after the real call: result is what real clone returned here
clone(c, result) ==
    IF result = 0
    THEN report_child_process(c)
    ELSE [cache |-> c, hit |-> FALSE, sent |-> <<>>]

\* _exit up to real__exit: report_access("_exit", EXIT, "", "")
exit_wrapper(c) ==
    LET a == create_access(c, "EXIT", EmptyPath, EmptyPath, TRUE)
    IN  [cache |-> a.cache, hit |-> a.hit, sent |-> <<SetErrno(a.group, 0)>>]

\* report_exit: SendExitReport writes one EXIT record and touches no cache
SendExitReport == <<[reports |-> <<AccessReport("EXIT", EmptyPath, Invalid)>>, error |-> 0]>>

\* A thread of p is free to make a call: any thread while p runs, a thread
\* other than the exiting one afterwards
CanCall(p) ==
    \/ proc[p].state = "running"
    \/ proc[p].state = "exiting" /\ proc[p].threads > 1

FreePids == {q \in 1..MaxPid : proc[q].state = "none"}
NewPid == CHOOSE q \in FreePids : \A r \in FreePids : q <= r

Emit(pid, groups) ==
    /\ Len(channel) + Len(Flatten(groups)) <= MaxChannel
    /\ channel' = channel \o Stamp(pid, Flatten(groups))

\* The loader runs the library's constructor in a fresh process
SandboxInit ==
    \E p \in 1..MaxPid :
        /\ proc[p].state = "loading"
        /\ LET r == _bxl_linux_sandbox_init(proc[p].cache)
           IN  /\ Emit(p, r.sent)
               /\ proc' = [proc EXCEPT ![p].state = "running", ![p].cache = r.cache]
        /\ UNCHANGED <<engineVars, fdVars, obsVars>>

\* The guest starts a thread (pthread_create does not pass through the
\* interposed clone)
SpawnThread ==
    \E p \in 1..MaxPid :
        /\ proc[p].state = "running"
        /\ proc[p].threads < MaxThreads
        /\ proc' = [proc EXCEPT ![p].threads = @ + 1]
        /\ UNCHANGED <<engineVars, fdVars, obsVars, channel>>

\* fork in the parent: the real fork returns the child's pid; the child is a
\* copy of the calling thread and stands right after the real call
Fork ==
    \E p \in 1..MaxPid :
        /\ CanCall(p)
        /\ FreePids # {}
        /\ LET q == NewPid
               r == fork(proc[p].cache, q)
           IN  /\ Emit(p, r.sent)
               /\ proc' = [proc EXCEPT
                             ![p].cache = r.cache,
                             ![q] = [state |-> "forked", cache |-> proc[p].cache,
                                     threads |-> 1, origin |-> "fork"]]
        /\ UNCHANGED <<engineVars, fdVars, obsVars>>

\* fork in the child: the real fork returned 0
ForkChild ==
    \E q \in 1..MaxPid :
        /\ proc[q].state = "forked"
        /\ LET r == fork(proc[q].cache, 0)
           IN  /\ Emit(q, r.sent)
               /\ proc' = [proc EXCEPT ![q].state = "running", ![q].cache = r.cache]
        /\ UNCHANGED <<engineVars, fdVars, obsVars>>

\* clone(fn, ...): the real clone returns the child's pid to the caller; in
\* the child it does not return, it calls fn
Clone ==
    \E p \in 1..MaxPid :
        /\ CanCall(p)
        /\ FreePids # {}
        /\ LET q == NewPid
               r == clone(proc[p].cache, q)
           IN  /\ Emit(p, r.sent)
               /\ proc' = [proc EXCEPT
                             ![p].cache = r.cache,
                             ![q] = [state |-> "running", cache |-> proc[p].cache,
                                     threads |-> 1, origin |-> "clone"]]
        /\ UNCHANGED <<engineVars, fdVars, obsVars>>

\* A thread of p calls stat("/ok")
ProcStat ==
    \E p \in 1..MaxPid :
        /\ CanCall(p)
        /\ LET o == stat(proc[p].cache, 0, OkPath, RealOk(0))
           IN  /\ Emit(p, o.last.sent)
               /\ proc' = [proc EXCEPT ![p].cache = o.cache]
        /\ UNCHANGED <<engineVars, fdVars, obsVars>>

\* A thread of p calls _exit: the wrapper has sent its report and is about
\* to call real__exit
ExitWrapper ==
    \E p \in 1..MaxPid :
        /\ proc[p].state = "running"
        /\ LET r == exit_wrapper(proc[p].cache)
           IN  /\ Emit(p, r.sent)
               /\ proc' = [proc EXCEPT ![p].state = "exiting", ![p].cache = r.cache]
        /\ UNCHANGED <<engineVars, fdVars, obsVars>>

\* A thread of p calls exit (or main returns): the on_exit handler
\* report_exit runs; the process has not terminated yet
ReportExit ==
    \E p \in 1..MaxPid :
        /\ proc[p].state = "running"
        /\ Emit(p, SendExitReport)
        /\ proc' = [proc EXCEPT ![p].state = "exiting"]
        /\ UNCHANGED <<engineVars, fdVars, obsVars>>

\* real__exit, or the end of exit: the process and all its threads are gone
Terminate ==
    \E p \in 1..MaxPid :
        /\ proc[p].state = "exiting"
        /\ proc' = [proc EXCEPT ![p].state = "dead"]
        /\ UNCHANGED <<engineVars, fdVars, obsVars, channel>>

InitProc ==
    /\ failUnexpected = TRUE
    /\ breakaway = FALSE
    /\ isRootPid = TRUE
    /\ errno = 0
    /\ cache = {}
    /\ last = NoCall
    /\ ncalls = 0
    /\ proc = [ProcIdle EXCEPT ![1] = [state |-> "loading", cache |-> {},
                                       threads |-> 1, origin |-> "exec"]]
    /\ channel = <<>>
    /\ fds = FdsInit
    /\ obs = ObsReady

NextProc ==
    \/ SandboxInit
    \/ SpawnThread
    \/ Fork
    \/ ForkChild
    \/ Clone
    \/ ProcStat
    \/ ExitWrapper
    \/ ReportExit
    \/ Terminate

SpecProc == InitProc /\ [][NextProc]_vars

\* While a thread of p is inside exit (the on_exit handlers run, the
\* process has not terminated) or between the report and real__exit of
\* _exit, another thread of p calls _exit
ExitWrapperLate ==
    \E p \in 1..MaxPid :
        /\ proc[p].state = "exiting" /\ proc[p].threads > 1
        /\ LET r == exit_wrapper(proc[p].cache)
           IN  /\ Emit(p, r.sent)
               /\ proc' = [proc EXCEPT ![p].cache = r.cache]
        /\ UNCHANGED <<engineVars, fdVars, obsVars>>

NextProcExit ==
    \/ SandboxInit
    \/ SpawnThread
    \/ Fork
    \/ ForkChild
    \/ ExitWrapper
    \/ ReportExit
    \/ ExitWrapperLate
    \/ Terminate

SpecProcExit == InitProc /\ [][NextProcExit]_vars

----------------------------------------------------------------------------
(* The exec family.  An environment is [preload, cfg]: the set of libraries *)
(* LD_PRELOAD names and whether the sandbox's configuration variables are  *)
(* present.                                                                *)

SandboxLib == "libDetours"
Envs ==
    {[preload |-> {}, cfg |-> FALSE],
     [preload |-> {"other"}, cfg |-> FALSE],
     [preload |-> {SandboxLib, "other"}, cfg |-> TRUE]}

\* ensureEnvs: LD_PRELOAD holds the sandbox library, the configuration
\* variables are present
ensureEnvs(envp) == [preload |-> envp.preload \cup {SandboxLib}, cfg |-> TRUE]

\* RemoveLDPreloadFromEnv: remove_path_from_LDPRELOAD(envp, detoursLibFullPath_)
RemoveLDPreloadFromEnv(envp) == [envp EXCEPT !.preload = @ \ {SandboxLib}]

\* report_exec(syscall, procName, file, error): one EXEC report on file
report_exec(file, error) ==
    <<[reports |-> <<AccessReport("EXEC", file, PolicyCheck("EXEC", file))>>,
       error |-> error]>>

\* reset_fd_table: every entry of fdTable_ is cleared
reset_fd_table(f) == [f EXCEPT !.table = [fd \in TrackedFds |-> EmptyPath]]

\* A real exec either replaces the process image (and never returns) or
\* fails with -1
RealExecOk == [ret |-> 0, failed |-> FALSE, err |-> 0, replaced |-> TRUE]
RealExecFail == [ret |-> -1, failed |-> TRUE, err |-> ENOENT, replaced |-> FALSE]
RealExec == {RealExecOk, RealExecFail}

\* ExecuteWithPTraceSandbox: the driver's result and the errno it leaves
DriverOutcomes == {RealOk(0), RealFail(-1, EIO)}

\* What a function that flows off its end without a return can hand back
UndefinedInts == {-1, 0, 1}
\* What a pointer into a destroyed temporary string can read
GarbagePath == <<"?">>

PTraceMqName == "mq"
FamPath == "fam"

\* handle_exec_with_ptrace(file, argv, envp, bxl)
handle_exec_with_ptrace(file, envp, e, f, driver) ==
    LET stripped == RemoveLDPreloadFromEnv(envp)
        after == IF driver.failed THEN driver.err ELSE e     \* errno after the driver
    IN  [fds |-> reset_fd_table(f),
         steps |-> <<[op |-> "reset_fd_table"],
                     [op |-> "RemoveLDPreloadFromEnv"],
                     [op |-> "ExecuteWithPTraceSandbox", file |-> file, envp |-> stripped,
                      mq |-> PTraceMqName, fam |-> FamPath],
                     [op |-> "report_exec", error |-> after]>>,
         sent |-> report_exec(file, after),
         ret |-> driver.ret,
         errno |-> after]

\* handle_exec_with_ptrace(fd, argv, envp, bxl): resolvedPath points into
\* the temporary fd_to_path(fd) returned, and the function has no return
\* statement.  path: what resolvedPath reads; ret: what the caller receives
handle_exec_with_ptrace_fd(path, ret, envp, e, f, driver) ==
    [handle_exec_with_ptrace(path, envp, e, f, driver) EXCEPT !.ret = ret]

\* x: the inputs of one exec call: file, fd, envp (the caller's vector),
\* environ (the process's), static (check_and_report_statically_linked_process),
\* resolved (resolve_filename_with_env), argc, real, driver, and for the
\* descriptor overload path and ret
ExecLast(w, x, e, branch, fn, given, h, result, sent, replaced) ==
    [w |-> w, branch |-> branch, static |-> x.static, pre |-> e,
     handoff |-> fn = "ptrace",
     fn |-> fn,                     \* the real function forwarded to
     given |-> given,               \* the environment it was given
     file |-> x.file, driver |-> x.driver, real |-> x.real,
     steps |-> h, ret |-> result, sent |-> sent, replaced |-> replaced]

\* The ptrace branch of a wrapper
Handoff(w, x, c, e, f, branch, file, envp) ==
    LET h == handle_exec_with_ptrace(file, envp, e, f, x.driver)
    IN  [cache |-> c, errno |-> h.errno, fds |-> h.fds,
         last |-> ExecLast(w, x, e, branch, "ptrace", envp, h.steps, h.ret, h.sent, FALSE)]

\* Mutant: the report is built before the real exec is called, with the
\* errno found on entry
Forward_ReportsBeforeCall(w, x, c, e, f, branch, fn, file, env) ==
    LET result == fwd(x.real, e)
    IN  IF x.real.replaced
        THEN [cache |-> c, errno |-> e, fds |-> f,
              last |-> ExecLast(w, x, e, branch, fn, env, <<>>, 0, report_exec(file, e), TRUE)]
        ELSE [cache |-> c, errno |-> result.my_errno, fds |-> f,
              last |-> ExecLast(w, x, e, branch, fn, env, <<>>, result.result,
                                report_exec(file, e), FALSE)]

\* A forwarding branch: result_t result = fwd_fn(file, argv, env);
\* report_exec(..., result.get_errno()); return result.restore()
Forward(w, x, c, e, f, branch, fn, file, env) ==
    LET result == fwd(x.real, e)
    IN  IF x.real.replaced
        THEN [cache |-> c, errno |-> e, fds |-> f,
              last |-> ExecLast(w, x, e, branch, fn, env, <<>>, 0, <<>>, TRUE)]
        ELSE [cache |-> c, errno |-> result.my_errno, fds |-> f,
              last |-> ExecLast(w, x, e, branch, fn, env, <<>>, result.result,
                                report_exec(file, result.my_errno), FALSE)]

\* argc == -1: return -1
BadArgs(w, x, c, e, f) ==
    [cache |-> c, errno |-> e, fds |-> f,
     last |-> ExecLast(w, x, e, "argc", "none", x.environ, <<>>, -1, <<>>, FALSE)]

fexecve(x, c, e, f) ==
    IF x.static
    THEN LET h == handle_exec_with_ptrace_fd(x.path, x.ret, ensureEnvs(x.envp), e, f, x.driver)
         IN  [cache |-> c, errno |-> h.errno, fds |-> h.fds,
              last |-> ExecLast("fexecve", x, e, "static", "ptrace", ensureEnvs(x.envp),
                                h.steps, h.ret, h.sent, FALSE)]
    ELSE LET result == fwd(x.real, e)
             r == report_access_fd(c, "EXEC", x.fd, result.my_errno)
         IN  IF x.real.replaced
             THEN [cache |-> c, errno |-> e, fds |-> f,
                   last |-> ExecLast("fexecve", x, e, "forward", "fexecve",
                                     ensureEnvs(x.envp), <<>>, 0, <<>>, TRUE)]
             ELSE [cache |-> r.cache, errno |-> result.my_errno, fds |-> f,
                   last |-> ExecLast("fexecve", x, e, "forward", "fexecve",
                                     ensureEnvs(x.envp), <<>>, result.result, r.sent, FALSE)]

execv(x, c, e, f) ==
    IF x.static
    THEN Handoff("execv", x, c, e, f, "static", x.file, ensureEnvs(x.environ))
    ELSE Forward("execv", x, c, e, f, "forward", "execve", x.file, ensureEnvs(x.environ))

execve(x, c, e, f) ==
    IF x.static
    THEN Handoff("execve", x, c, e, f, "static", x.file, ensureEnvs(x.envp))
    ELSE Forward("execve", x, c, e, f, "forward", "execve", x.file, ensureEnvs(x.envp))

execvp(x, c, e, f) ==
    IF x.resolved
    THEN IF x.static
         THEN Handoff("execvp", x, c, e, f, "static", x.file, ensureEnvs(x.environ))
         ELSE Forward("execvp", x, c, e, f, "forward", "execve", x.file, ensureEnvs(x.environ))
    ELSE Forward("execvp", x, c, e, f, "unresolved", "execvpe", x.file, ensureEnvs(x.environ))

execvpe(x, c, e, f) ==
    IF x.resolved
    THEN IF x.static
         THEN Handoff("execvpe", x, c, e, f, "static", x.file, ensureEnvs(x.envp))
         ELSE Forward("execvpe", x, c, e, f, "forward", "execve", x.file, ensureEnvs(x.envp))
    ELSE Forward("execvpe", x, c, e, f, "unresolved", "execve", x.file, ensureEnvs(x.envp))

execl(x, c, e, f) ==
    IF x.argc = -1 THEN BadArgs("execl", x, c, e, f)
    ELSE IF x.static
    THEN Handoff("execl", x, c, e, f, "static", x.file, ensureEnvs(x.environ))
    ELSE Forward("execl", x, c, e, f, "forward", "execve", x.file, ensureEnvs(x.environ))

\* When the name does not resolve execlp forwards to the real execvp, which
\* takes no environment argument and runs the image with environ as it is
execlp(x, c, e, f) ==
    IF x.argc = -1 THEN BadArgs("execlp", x, c, e, f)
    ELSE IF x.resolved
    THEN IF x.static
         THEN Handoff("execlp", x, c, e, f, "static", x.file, ensureEnvs(x.environ))
         ELSE Forward("execlp", x, c, e, f, "forward", "execve", x.file, ensureEnvs(x.environ))
    ELSE Forward("execlp", x, c, e, f, "unresolved", "execvp", x.file, x.environ)

execle(x, c, e, f) ==
    IF x.argc = -1 THEN BadArgs("execle", x, c, e, f)
    ELSE IF x.static
    THEN Handoff("execle", x, c, e, f, "static", x.file, ensureEnvs(x.envp))
    ELSE Forward("execle", x, c, e, f, "forward", "execve", x.file, ensureEnvs(x.envp))

ExecWrappers == {"fexecve", "execv", "execve", "execvp", "execvpe", "execl", "execlp", "execle"}

\* The program the guest tries to run
ExecFile == <<"bin", "sh">>

\* One descriptor open on /ok whose path has been looked up already
FdsOneCached ==
    [FdsInit EXCEPT !.table[3] = OkPath, !.open[3] = OkPath, !.ev[3] = "open"]

ExecInput(file, fd, envp, environ, static, resolved, argc, real, driver, path, ret) ==
    [file |-> file, fd |-> fd, envp |-> envp, environ |-> environ, static |-> static,
     resolved |-> resolved, argc |-> argc, real |-> real, driver |-> driver,
     path |-> path, ret |-> ret]

\* The exec succeeded: this program is gone
ExecDone == last.w \in ExecWrappers /\ last.replaced

ExecStep(o) ==
    /\ ncalls < MaxCalls
    /\ ~ExecDone
    /\ ncalls' = ncalls + 1
    /\ cache' = o.cache
    /\ errno' = o.errno
    /\ fds' = o.fds
    /\ last' = o.last
    /\ UNCHANGED <<failUnexpected, breakaway, isRootPid, procVars, obsVars>>

Fexecve ==
    \E envp \in Envs, static \in BOOLEAN, real \in RealExec, driver \in DriverOutcomes,
       path \in {fd_to_path(1), GarbagePath}, ret \in UndefinedInts :
        ExecStep(fexecve(ExecInput(fd_to_path(1), 1, envp, envp, static, TRUE, 1, real,
                                   driver, path, ret), cache, errno, fds))
Execv ==
    \E environ \in Envs, static \in BOOLEAN, real \in RealExec, driver \in DriverOutcomes :
        ExecStep(execv(ExecInput(ExecFile, 0, environ, environ, static, TRUE, 1, real,
                                 driver, ExecFile, 0), cache, errno, fds))
Execve ==
    \E envp \in Envs, static \in BOOLEAN, real \in RealExec, driver \in DriverOutcomes :
        ExecStep(execve(ExecInput(ExecFile, 0, envp, envp, static, TRUE, 1, real,
                                  driver, ExecFile, 0), cache, errno, fds))
Execvp ==
    \E environ \in Envs, static \in BOOLEAN, resolved \in BOOLEAN, real \in RealExec,
       driver \in DriverOutcomes :
        ExecStep(execvp(ExecInput(ExecFile, 0, environ, environ, static, resolved, 1, real,
                                  driver, ExecFile, 0), cache, errno, fds))
Execvpe ==
    \E envp \in Envs, static \in BOOLEAN, resolved \in BOOLEAN, real \in RealExec,
       driver \in DriverOutcomes :
        ExecStep(execvpe(ExecInput(ExecFile, 0, envp, envp, static, resolved, 1, real,
                                   driver, ExecFile, 0), cache, errno, fds))
Execl ==
    \E environ \in Envs, static \in BOOLEAN, argc \in {-1, 1}, real \in RealExec,
       driver \in DriverOutcomes :
        ExecStep(execl(ExecInput(ExecFile, 0, environ, environ, static, TRUE, argc, real,
                                 driver, ExecFile, 0), cache, errno, fds))
Execlp ==
    \E environ \in Envs, static \in BOOLEAN, resolved \in BOOLEAN, argc \in {-1, 1},
       real \in RealExec, driver \in DriverOutcomes :
        ExecStep(execlp(ExecInput(ExecFile, 0, environ, environ, static, resolved, argc,
                                  real, driver, ExecFile, 0), cache, errno, fds))
Execle ==
    \E envp \in Envs, static \in BOOLEAN, argc \in {-1, 1}, real \in RealExec,
       driver \in DriverOutcomes :
        ExecStep(execle(ExecInput(ExecFile, 0, envp, envp, static, TRUE, argc, real,
                                  driver, ExecFile, 0), cache, errno, fds))

InitExec ==
    /\ failUnexpected = TRUE
    /\ breakaway = FALSE
    /\ isRootPid = TRUE
    /\ errno \in {0, EIO}
    /\ cache = {}
    /\ last = NoCall
    /\ ncalls = 0
    /\ proc = ProcIdle
    /\ channel = <<>>
    /\ fds \in {FdsInit, FdsOneCached}
    /\ obs = ObsReady

NextExec ==
    \/ Fexecve
    \/ Execv
    \/ Execve
    \/ Execvp
    \/ Execvpe
    \/ Execl
    \/ Execlp
    \/ Execle

SpecExec == InitExec /\ [][NextExec]_vars

----------------------------------------------------------------------------
(* The descriptor table through open, close, dup and descriptor calls *)

\* reset_fd_table_entry: clear the entry (descriptors outside the table are
\* ignored)
reset_fd_table_entry(f, fd) ==
    IF fd \in DOMAIN f.table THEN [f EXCEPT !.table[fd] = EmptyPath] ELSE f

\* ret_fd: the entry of a descriptor just returned is cleared
ret_fd(f, fd) == reset_fd_table_entry(f, fd)

\* fd_to_path with the table: a cached entry answers; on a miss the path
\* is read from /proc/self/fd and, when there is one, cached
fd_to_path_cached(f, fd) ==
    IF f.table[fd] # EmptyPath
    THEN [path |-> f.table[fd], cached |-> TRUE, fds |-> f]
    ELSE [path |-> f.open[fd], cached |-> FALSE,
          fds |-> IF f.open[fd] # EmptyPath
                  THEN [f EXCEPT !.table[fd] = f.open[fd]] ELSE f]

\* The kernel: lowest free descriptor (0: none left), open, close, dup, dup2
LowestFree(f) ==
    IF \E fd \in TrackedFds : f.open[fd] = EmptyPath
    THEN CHOOSE fd \in TrackedFds :
            /\ f.open[fd] = EmptyPath
            /\ \A g \in TrackedFds : f.open[g] = EmptyPath => fd <= g
    ELSE 0
real_open(f, path, pathExists, oflag) ==
    IF ~pathExists /\ ~oflag.creat THEN [real |-> RealFail(-1, ENOENT), fds |-> f]
    ELSE IF LowestFree(f) = 0 THEN [real |-> RealFail(-1, EMFILE), fds |-> f]
    ELSE [real |-> RealOk(LowestFree(f)),
          fds |-> [f EXCEPT !.open[LowestFree(f)] = path, !.ev[LowestFree(f)] = "open"]]
real_close(f, fd) ==
    IF f.open[fd] = EmptyPath THEN [real |-> RealFail(-1, EBADF), fds |-> f]
    ELSE [real |-> RealOk(0), fds |-> [f EXCEPT !.open[fd] = EmptyPath]]
real_dup(f, fd) ==
    IF f.open[fd] = EmptyPath THEN [real |-> RealFail(-1, EBADF), fds |-> f]
    ELSE IF LowestFree(f) = 0 THEN [real |-> RealFail(-1, EMFILE), fds |-> f]
    ELSE [real |-> RealOk(LowestFree(f)),
          fds |-> [f EXCEPT !.open[LowestFree(f)] = f.open[fd], !.ev[LowestFree(f)] = "dup"]]
real_dup2(f, oldfd, newfd) ==
    IF f.open[oldfd] = EmptyPath THEN [real |-> RealFail(-1, EBADF), fds |-> f]
    ELSE [real |-> RealOk(newfd),
          fds |-> IF oldfd = newfd THEN f
                  ELSE [f EXCEPT !.open[newfd] = f.open[oldfd], !.ev[newfd] = "dup"]]

\* The outcome of a call that touches the descriptor table: the engine's
\* outcome, the table afterwards and what the call did with the descriptor
FdFinished(o, f, extra) ==
    [cache |-> o.cache, errno |-> o.errno, fds |-> f, last |-> extra @@ o.last]

\* open / open64 / openat / openat64
open(c, e, f, path, oflag, pathExists) ==
    LET a == CreateFileOpen(c, path, oflag, pathExists)
        k == real_open(f, path, pathExists, oflag)
        r == check_fwd_and_report(a.group, a.check, ERROR_RETURN_VALUE, k.real, e)
        o == Finished("open", OpenEventType(pathExists, oflag), path, e, a.cache, a.hit,
                      r, k.real, ERROR_RETURN_VALUE)
    IN  FdFinished(o, ret_fd(IF r.denied THEN f ELSE k.fds, r.ret),
                   [fd |-> r.ret, oflag |-> oflag, pathExists |-> pathExists,
                    cached |-> FALSE])

\* creat(pathname, mode) is open(pathname, O_CREAT | O_WRONLY | O_TRUNC, mode)
O_CREAT_WRONLY_TRUNC == [creat |-> TRUE, trunc |-> TRUE, acc |-> "O_WRONLY"]
creat(c, e, f, path, pathExists) ==
    LET v == open(c, e, f, path, O_CREAT_WRONLY_TRUNC, pathExists)
    IN  [v EXCEPT !.last.w = "creat"]

\* What close does to errno and the kernel, with no entry touched
NoEntry == [fd |-> 0, oflag |-> O_CREAT_WRONLY_TRUNC, pathExists |-> FALSE, cached |-> FALSE]
FdOnly(w, c, e, f, fd, k) ==
    [cache |-> c, errno |-> fwd(k.real, e).my_errno, fds |-> f,
     last |-> [NoEntry EXCEPT !.fd = fd] @@
              [NoCall EXCEPT !.w = w, !.pre = e, !.realCalls = 1, !.real = k.real,
                             !.ret = k.real.ret, !.error_val = ERROR_RETURN_VALUE]]

\* Mutant: close forwards without clearing the entry
close_KeepsEntry(c, e, f, fd) ==
    LET k == real_close(f, fd)
    IN  FdOnly("close", c, e, [k.fds EXCEPT !.ev[fd] = "close"], fd, k)

\* close: reset_fd_table_entry(fd); fwd_close(fd).restore()
close(c, e, f, fd) ==
    LET k == real_close(reset_fd_table_entry(f, fd), fd)
    IN  FdOnly("close", c, e, [k.fds EXCEPT !.ev[fd] = "close"], fd, k)

\* dup: ret_fd(real_dup(fd))
dup(c, e, f, fd) ==
    LET k == real_dup(f, fd)
    IN  FdOnly("dup", c, e, ret_fd(k.fds, k.real.ret), k.real.ret, k)

\* dup2 / dup3: reset_fd_table_entry(newfd); real_dup2(oldfd, newfd)
dup2(c, e, f, oldfd, newfd) ==
    LET k == real_dup2(reset_fd_table_entry(f, newfd), oldfd, newfd)
    IN  FdOnly("dup2", c, e, k.fds, newfd, k)

\* write on a descriptor of the table: create_access_fd resolves the path
\* with fd_to_path, then check_fwd_and_report_write
write_cached(c, e, f, fd) ==
    LET l == fd_to_path_cached(f, fd)
        a == create_access(c, "WRITE", l.path, EmptyPath, TRUE)
        real == IF f.open[fd] = EmptyPath THEN RealFail(-1, EBADF) ELSE RealOk(1)
        r == check_fwd_and_report(a.group, a.check, ERROR_RETURN_VALUE, real, e)
        o == Finished("write", "WRITE", l.path, e, a.cache, a.hit, r, real,
                      ERROR_RETURN_VALUE)
    IN  FdFinished(o, l.fds, [NoEntry EXCEPT !.fd = fd, !.cached = l.cached])

OFlags ==
    {[creat |-> cr, trunc |-> tr, acc |-> a] :
        cr \in BOOLEAN, tr \in BOOLEAN, a \in {"O_RDONLY", "O_WRONLY", "O_RDWR"}}

FdStep(o) ==
    /\ ncalls < MaxFdCalls
    /\ fds.closing = 0
    /\ ncalls' = ncalls + 1
    /\ cache' = o.cache
    /\ errno' = o.errno
    /\ fds' = o.fds
    /\ last' = o.last
    /\ UNCHANGED <<failUnexpected, breakaway, isRootPid, procVars, obsVars>>

Open == \E oflag \in OFlags, x \in BOOLEAN : FdStep(open(cache, errno, fds, OkPath, oflag, x))
Creat == \E x \in BOOLEAN : FdStep(creat(cache, errno, fds, OkPath, x))
Close == \E fd \in TrackedFds : FdStep(close(cache, errno, fds, fd))
Dup == \E fd \in TrackedFds : FdStep(dup(cache, errno, fds, fd))
Dup2 == \E oldfd \in TrackedFds, newfd \in TrackedFds :
            FdStep(dup2(cache, errno, fds, oldfd, newfd))

\* A descriptor call by any thread; it may fall between the two halves of
\* another thread's close
WriteCached ==
    \E fd \in TrackedFds :
        /\ ncalls < MaxFdCalls
        /\ LET o == write_cached(cache, errno, fds, fd)
           IN  /\ cache' = o.cache
               /\ errno' = o.errno
               /\ fds' = o.fds
               /\ last' = o.last
        /\ ncalls' = ncalls + 1
        /\ UNCHANGED <<failUnexpected, breakaway, isRootPid, procVars, obsVars>>

\* close in a thread of a guest with several: first the entry is reset ...
CloseReset ==
    \E fd \in TrackedFds :
        /\ ncalls < MaxFdCalls
        /\ fds.closing = 0
        /\ fds' = [reset_fd_table_entry(fds, fd) EXCEPT !.closing = fd]
        /\ ncalls' = ncalls + 1
        /\ UNCHANGED <<failUnexpected, breakaway, isRootPid, errno, cache, last, procVars, obsVars>>

\* ... then the real close runs
CloseReal ==
    /\ fds.closing # 0
    /\ LET k == real_close(fds, fds.closing)
       IN  fds' = [k.fds EXCEPT !.ev[fds.closing] = "close", !.closing = 0]
    /\ UNCHANGED <<failUnexpected, breakaway, isRootPid, errno, cache, last, ncalls, procVars, obsVars>>

InitFd ==
    /\ failUnexpected = TRUE
    /\ breakaway = FALSE
    /\ isRootPid = TRUE
    /\ errno = 0
    /\ cache = {}
    /\ last = NoCall
    /\ ncalls = 0
    /\ proc = ProcIdle
    /\ channel = <<>>
    /\ fds = FdsInit
    /\ obs = ObsReady

\* One thread: every call runs to its end before the next
NextFd ==
    \/ Open
    \/ Creat
    \/ Close
    \/ Dup
    \/ Dup2
    \/ WriteCached

SpecFd == InitFd /\ [][NextFd]_vars

\* Several threads sharing the descriptors
NextFdThreads ==
    \/ Open
    \/ WriteCached
    \/ CloseReset
    \/ CloseReal

SpecFdThreads == InitFd /\ [][NextFdThreads]_vars

----------------------------------------------------------------------------
(* name_to_handle_at, and the table with the standard input in it *)

STDIN_FILENO == 0
TtyPath == <<"dev", "tty">>

\* The table of a process whose standard input is open on the terminal
FdsStdin ==
    [table |-> [fd \in {STDIN_FILENO} \cup TrackedFds |-> EmptyPath],
     open |-> [fd \in {STDIN_FILENO} \cup TrackedFds |->
                  IF fd = STDIN_FILENO THEN TtyPath ELSE EmptyPath],
     ev |-> [fd \in {STDIN_FILENO} \cup TrackedFds |-> "none"],
     closing |-> 0]

\* oflags = (flags & AT_SYMLINK_FOLLOW) ? 0 : O_NOFOLLOW: nothing is
\* created or truncated
HandleOFlags == [creat |-> FALSE, trunc |-> FALSE, acc |-> "O_RDONLY"]

\* The real name_to_handle_at returns 0 when it filled the handle
RealHandle(pathExists) == IF pathExists THEN RealOk(0) ELSE RealFail(-1, ENOENT)

\* name_to_handle_at: CreateFileOpen, check_fwd_and_report_name_to_handle_at,
\* and the result goes through ret_fd
name_to_handle_at(c, e, f, path, pathExists) ==
    LET a == CreateFileOpen(c, path, HandleOFlags, pathExists)
        real == RealHandle(pathExists)
        r == check_fwd_and_report(a.group, a.check, ERROR_RETURN_VALUE, real, e)
        o == Finished("name_to_handle_at", OpenEventType(pathExists, HandleOFlags), path,
                      e, a.cache, a.hit, r, real, ERROR_RETURN_VALUE)
    IN  FdFinished(o, ret_fd(f, r.ret),
                   [fd |-> r.ret, oflag |-> HandleOFlags, pathExists |-> pathExists,
                    cached |-> FALSE])

NameToHandleAt ==
    \E path \in CallPaths, x \in BOOLEAN :
        FdStep(name_to_handle_at(cache, errno, fds, path, x))

\* A descriptor call on the standard input: its path is looked up and cached
WriteStdin == FdStep(write_cached(cache, errno, fds, STDIN_FILENO))

InitStdin ==
    /\ failUnexpected = TRUE
    /\ breakaway = FALSE
    /\ isRootPid = TRUE
    /\ errno = 0
    /\ cache = {}
    /\ last = NoCall
    /\ ncalls = 0
    /\ proc = ProcIdle
    /\ channel = <<>>
    /\ fds = FdsStdin
    /\ obs = ObsReady

NextStdin ==
    \/ Open
    \/ Creat
    \/ Close
    \/ Dup
    \/ Dup2
    \/ NameToHandleAt
    \/ WriteStdin

SpecStdin == InitStdin /\ [][NextStdin]_vars

----------------------------------------------------------------------------
(* fork and clone as whole calls, seen from the process that returns *)

EAGAIN == 11

\* What the real fork or clone returns in the process followed: 0 (this is
\* the child, a copy of the parent), the child's pid (this is the parent),
\* or -1
RealFork == {RealOk(0), RealOk(MaxPid), RealFail(-1, EAGAIN)}

ForkFinished(w, c, e, f, before, real, steps, sent) ==
    [cache |-> c, errno |-> fwd(real, e).my_errno, fds |-> f,
     last |-> [steps |-> steps, before |-> before] @@
              [NoCall EXCEPT !.w = w, !.event = "FORK", !.path = ExePath, !.pre = e,
                             !.realCalls = 1, !.real = real, !.sent = sent,
                             !.ret = fwd(real, e).result,
                             !.error_val = ERROR_RETURN_VALUE]]

\* Mutant: the child reports without clearing the descriptor table
fork_call_KeepsTable(c, e, f, real) ==
    LET childPid == fwd(real, e)
        r == fork(c, childPid.result)
    IN  IF childPid.result = 0
        THEN ForkFinished("fork", r.cache, e, f, f.table, real,
                          <<"fwd_fork", "report_child_process">>, r.sent)
        ELSE ForkFinished("fork", c, e, f, f.table, real, <<"fwd_fork">>, <<>>)

\* fork: fwd_fork(); in the child reset_fd_table() and report_child_process;
\* childPid.restore()
fork_call(c, e, f, real) ==
    LET childPid == fwd(real, e)
        r == fork(c, childPid.result)
    IN  IF childPid.result = 0
        THEN ForkFinished("fork", r.cache, e, reset_fd_table(f), f.table, real,
                          <<"fwd_fork", "reset_fd_table", "report_child_process">>, r.sent)
        ELSE ForkFinished("fork", c, e, f, f.table, real, <<"fwd_fork">>, <<>>)

\* clone: fwd_clone(...); when the result is 0 reset_fd_table() and
\* report_child_process; result.restore()
clone_call(c, e, f, real) ==
    LET result == fwd(real, e)
        r == clone(c, result.result)
    IN  IF result.result = 0
        THEN ForkFinished("clone", r.cache, e, reset_fd_table(f), f.table, real,
                          <<"fwd_clone", "reset_fd_table", "report_child_process">>, r.sent)
        ELSE ForkFinished("clone", c, e, f, f.table, real, <<"fwd_clone">>, <<>>)

ForkCall == \E real \in RealFork : FdStep(fork_call(cache, errno, fds, real))
CloneCall == \E real \in RealFork : FdStep(clone_call(cache, errno, fds, real))

NextFork ==
    \/ Open
    \/ Close
    \/ WriteCached
    \/ ForkCall
    \/ CloneCall

SpecFork == InitFd /\ [][NextFork]_vars

----------------------------------------------------------------------------
(* copy_file_range and the descriptors its exit label closes *)

\* What the two slots of pipefd can hold when pipe() never wrote them: any
\* int, a descriptor of the guest among them
UninitPipefd == TrackedFds \cup {-1}

\* close(fd) on whatever fd holds: the interposed close when fd names a
\* descriptor slot, EBADF from the kernel otherwise
close_any(f, fd) == IF fd \in DOMAIN f.open THEN close({}, 0, f, fd).fds ELSE f
ClosesOk(f, fd) == fd \in DOMAIN f.open /\ f.open[fd] # EmptyPath

\* How the part after the checks can go: the pipe is created and the
\* splices succeed or fail, or pipe() fails; p0, p1: what the slots of
\* pipefd hold when pipe() did not write them
CopyCases ==
    {[pipeOk |-> TRUE, splice1Ok |-> s1, splice2Ok |-> s2, p0 |-> -1, p1 |-> -1] :
        s1 \in BOOLEAN, s2 \in BOOLEAN}
    \cup
    {[pipeOk |-> FALSE, splice1Ok |-> FALSE, splice2Ok |-> FALSE, p0 |-> p0, p1 |-> p1] :
        p0 \in UninitPipefd, p1 \in UninitPipefd}

\* copy_file_range with the table: the descriptors of a pipe it created are
\* closed again and the table is as before; on the other paths to the exit
\* label close() is called on the two values found in pipefd
CopyFileRangeFd ==
    \E fd_in \in Fds, fd_out \in Fds, flags \in {0, 1}, k \in CopyCases :
        LET env == [pipeOk |-> k.pipeOk, splice1Ok |-> k.splice1Ok,
                    splice2Ok |-> k.splice2Ok,
                    close0Ok |-> ClosesOk(fds, k.p0),
                    close1Ok |-> ClosesOk(close_any(fds, k.p0), k.p1)]
            o == copy_file_range(cache, errno, fd_in, 0, fd_out, 0, 1, flags, env)
            created == o.last.closes = <<"pipe", "pipe">>
        IN  FdStep([cache |-> o.cache, errno |-> o.errno,
                    fds |-> IF created THEN fds
                            ELSE close_any(close_any(fds, k.p0), k.p1),
                    last |-> [pipefd |-> <<k.p0, k.p1>>] @@ o.last])

NextCopyFd ==
    \/ Open
    \/ WriteCached
    \/ CopyFileRangeFd

SpecCopyFd == InitFd /\ [][NextCopyFd]_vars

----------------------------------------------------------------------------
(* link, symlink, unlink *)

AT_FDCWD == -100

\* normalize_path_at: an empty path gives the empty string; the paths of
\* the model are absolute, so dirfd plays no further part
normalize_path_at(dirfd, pathname) == IF pathname = EmptyPath THEN EmptyPath ELSE pathname

\* What is kept of a call besides the engine's record: the source and the
\* destination it was given, its dirfd, whether a policy check was made
PathFinished(o, src, dst, dirfd, checked) ==
    [cache |-> o.cache, errno |-> o.errno,
     last |-> [src |-> src, dst |-> dst, dirfd |-> dirfd, checked |-> checked] @@ o.last]

\* fwd_##name(...).restore() with nothing checked and nothing reported
Forwarded(w, c, e, path, dirfd, real) ==
    PathFinished([cache |-> c, errno |-> fwd(real, e).my_errno,
                  last |-> [NoCall EXCEPT !.w = w, !.path = path, !.pre = e,
                                          !.realCalls = 1, !.real = real,
                                          !.ret = fwd(real, e).result,
                                          !.error_val = ERROR_RETURN_VALUE]],
                 path, EmptyPath, dirfd, FALSE)

\* link / linkat: one LINK event with both paths
link(c, e, path1, path2, real) ==
    LET a == create_access(c, "LINK", path1, path2, TRUE)
        r == check_fwd_and_report(a.group, a.check, ERROR_RETURN_VALUE, real, e)
    IN  PathFinished(Finished("link", "LINK", path1, e, a.cache, a.hit, r, real,
                              ERROR_RETURN_VALUE),
                     path1, path2, AT_FDCWD, a.check.checked)

\* symlink / symlinkat: one CREATE event whose only path is linkPath
symlink(c, e, target, linkPath, real) ==
    LET a == create_access(c, "CREATE", linkPath, EmptyPath, TRUE)
        r == check_fwd_and_report(a.group, a.check, ERROR_RETURN_VALUE, real, e)
    IN  PathFinished(Finished("symlink", "CREATE", linkPath, e, a.cache, a.hit, r, real,
                              ERROR_RETURN_VALUE),
                     target, linkPath, AT_FDCWD, a.check.checked)

unlink(c, e, path, real) ==
    IF path = EmptyPath
    THEN Forwarded("unlink", c, e, path, AT_FDCWD, real)
    ELSE LET a == create_access(c, "UNLINK", path, EmptyPath, TRUE)
             r == check_fwd_and_report(a.group, a.check, ERROR_RETURN_VALUE, real, e)
         IN  PathFinished(Finished("unlink", "UNLINK", path, e, a.cache, a.hit, r, real,
                                   ERROR_RETURN_VALUE),
                          path, EmptyPath, AT_FDCWD, a.check.checked)

\* Mutant: every empty path is forwarded unchecked, whatever dirfd is
unlinkat_AnyDirfd(c, e, dirfd, path, real) ==
    IF path = EmptyPath
    THEN Forwarded("unlinkat", c, e, path, dirfd, real)
    ELSE LET a == create_access(c, "UNLINK", normalize_path_at(dirfd, path), EmptyPath, TRUE)
             r == check_fwd_and_report(a.group, a.check, ERROR_RETURN_VALUE, real, e)
         IN  PathFinished(Finished("unlinkat", "UNLINK", path, e, a.cache, a.hit, r, real,
                                   ERROR_RETURN_VALUE),
                          path, EmptyPath, dirfd, a.check.checked)

\* unlinkat: flags only choose the symlink-nofollow hint of the normalisation
unlinkat(c, e, dirfd, path, real) ==
    IF dirfd = AT_FDCWD /\ path = EmptyPath
    THEN Forwarded("unlinkat", c, e, path, dirfd, real)
    ELSE LET a == create_access(c, "UNLINK", normalize_path_at(dirfd, path), EmptyPath, TRUE)
             r == check_fwd_and_report(a.group, a.check, ERROR_RETURN_VALUE, real, e)
         IN  PathFinished(Finished("unlinkat", "UNLINK", path, e, a.cache, a.hit, r, real,
                                   ERROR_RETURN_VALUE),
                          path, EmptyPath, dirfd, a.check.checked)

LinkPaths == {OkPath, DenyPath, <<"n">>}
Dirfds == {AT_FDCWD, 3}

Link ==
    \E path1 \in LinkPaths, path2 \in LinkPaths, real \in RealPathCall :
        Step(link(cache, errno, path1, path2, real))

Symlink ==
    \E target \in LinkPaths, linkPath \in LinkPaths, real \in RealPathCall :
        Step(symlink(cache, errno, target, linkPath, real))

UnlinkPaths == CallPaths \cup {EmptyPath}

Unlink ==
    \E path \in UnlinkPaths, real \in RealPathCall :
        Step(unlink(cache, errno, path, real))

Unlinkat ==
    \E dirfd \in Dirfds, path \in UnlinkPaths, real \in RealPathCall :
        Step(unlinkat(cache, errno, dirfd, path, real))

\* rename of a file
RenameFile ==
    \E i \in {j \in RenameInputs : ~j.isDir}, real \in RealPathCall :
        Step(rename(cache, errno, i.old, i.new, i.isDir, i.enum, i.entries, i.exists, real))

NextPaths ==
    \/ Link
    \/ Symlink
    \/ Unlink
    \/ Unlinkat
    \/ RenameFile

SpecPaths == Init /\ [][NextPaths]_vars

----------------------------------------------------------------------------
(* mkdir, mkdirat, rmdir: every attempt is reported *)

\* Mutant: rmdir leaves checkCache at its default
rmdir_Cached(c, e, pathname, real) ==
    LET a == create_access(c, "UNLINK", pathname, EmptyPath, TRUE)
        r == check_fwd_and_report(a.group, a.check, ERROR_RETURN_VALUE, real, e)
    IN  Finished("rmdir", "UNLINK", pathname, e, a.cache, a.hit, r, real, ERROR_RETURN_VALUE)

\* rmdir: create_access(UNLINK, pathname, report, 0, 0, checkCache = false)
rmdir(c, e, pathname, real) ==
    LET a == create_access(c, "UNLINK", pathname, EmptyPath, FALSE)
        r == check_fwd_and_report(a.group, a.check, ERROR_RETURN_VALUE, real, e)
    IN  Finished("rmdir", "UNLINK", pathname, e, a.cache, a.hit, r, real, ERROR_RETURN_VALUE)

\* report_create: a CREATE event on normalize_path_at(dirfd, pathname)
report_create(c, dirfd, pathname, checkCache) ==
    create_access(c, "CREATE", normalize_path_at(dirfd, pathname), EmptyPath, checkCache)

mkdirat(c, e, dirfd, pathname, real) ==
    LET a == report_create(c, dirfd, pathname, FALSE)
        r == check_fwd_and_report(a.group, a.check, ERROR_RETURN_VALUE, real, e)
    IN  Finished("mkdirat", "CREATE", normalize_path_at(dirfd, pathname), e, a.cache, a.hit,
                 r, real, ERROR_RETURN_VALUE)

mkdir(c, e, pathname, real) ==
    [mkdirat(c, e, AT_FDCWD, pathname, real) EXCEPT !.last.w = "mkdir"]

\* One call; what the call before it was is kept beside its record
DirStep(o) ==
    /\ ncalls < MaxDirCalls
    /\ ncalls' = ncalls + 1
    /\ cache' = o.cache
    /\ errno' = o.errno
    /\ last' = [prev |-> [w |-> last.w, path |-> last.path, ret |-> last.ret]] @@ o.last
    /\ UNCHANGED <<failUnexpected, breakaway, isRootPid, procVars, fdVars, obsVars>>

Rmdir == \E p \in CallPaths, real \in RealPathCall : DirStep(rmdir(cache, errno, p, real))
Mkdir == \E p \in CallPaths, real \in RealPathCall : DirStep(mkdir(cache, errno, p, real))
Mkdirat ==
    \E dirfd \in {AT_FDCWD, 3}, p \in CallPaths, real \in RealPathCall :
        DirStep(mkdirat(cache, errno, dirfd, p, real))
\* A call that goes through the dedup cache, on the same paths
ChmodDir == \E p \in CallPaths, real \in RealPathCall : DirStep(chmod(cache, errno, p, real))

NextDirs ==
    \/ Rmdir
    \/ Mkdir
    \/ Mkdirat
    \/ ChmodDir

SpecDirs == Init /\ [][NextDirs]_vars

----------------------------------------------------------------------------
(* Calls that may arrive before the observer exists: readlink, dlopen *)

\* BxlObserver::GetInstance(): builds the singleton on first use
GetInstance(o) == [o EXCEPT !.instance = TRUE]

MallocConf == <<"etc", "malloc.conf">>

\* What is kept of such a call besides the engine's record
EarlyFinished(v, o, given, passed) ==
    [cache |-> v.cache, errno |-> v.errno, obs |-> o,
     last |-> [given |-> given, passed |-> passed] @@ v.last]

\* Mutant: readlink without the short circuit
readlink_ThroughObserver(o, c, e, path, real) ==
    LET a == create_access(c, "READLINK", path, EmptyPath, TRUE)
        r == check_fwd_and_report(a.group, a.check, ERROR_RETURN_VALUE, real, e)
    IN  EarlyFinished(Finished("readlink", "READLINK", path, e, a.cache, a.hit, r, real,
                               ERROR_RETURN_VALUE),
                      GetInstance(o), path, path)

\* readlink: INTERPOSE_SOMETIMES runs the short-circuit check before
\* BxlObserver::GetInstance()
readlink(o, c, e, path, real) ==
    IF path = MallocConf
    THEN EarlyFinished([cache |-> c, errno |-> ENOENT,
                        last |-> [NoCall EXCEPT !.w = "readlink", !.event = "READLINK",
                                                !.path = path, !.pre = e,
                                                !.ret = -1,
                                                !.error_val = ERROR_RETURN_VALUE]],
                       o, path, EmptyPath)
    ELSE LET a == create_access(c, "READLINK", path, EmptyPath, TRUE)
             r == check_fwd_and_report(a.group, a.check, ERROR_RETURN_VALUE, real, e)
         IN  EarlyFinished(Finished("readlink", "READLINK", path, e, a.cache, a.hit, r, real,
                                    ERROR_RETURN_VALUE),
                           GetInstance(o), path, path)

\* File names as sequences of pieces of text; strncmp(filename, LIBC_SO,
\* strlen(LIBC_SO)) == 0 holds when LIBC_SO is a prefix of filename
LIBC_SO == <<"libc.so.6">>
NullName == <<>>
StartsWith(filename, prefix) ==
    /\ Len(filename) >= Len(prefix)
    /\ SubSeq(filename, 1, Len(prefix)) = prefix

\* dlopen: real_dlopen(NULL, flags) for a name that starts with LIBC_SO,
\* fwd_dlopen(filename, flags).restore() otherwise
dlopen(o, c, e, filename, real) ==
    LET libc == filename # NullName /\ StartsWith(filename, LIBC_SO)
    IN  EarlyFinished([cache |-> c,
                       errno |-> fwd(real, e).my_errno,
                       last |-> [NoCall EXCEPT !.w = "dlopen", !.pre = e, !.realCalls = 1,
                                               !.real = real, !.ret = real.ret]],
                      GetInstance(o), filename, IF libc THEN NullName ELSE filename)

ReadlinkPaths == {MallocConf, OkPath, DenyPath}
\* readlink gives the length of the link's target
RealReadlink == {RealOk(1), RealFail(-1, EINVAL)}
\* dlopen gives a handle, or NULL (dlerror tells why; errno is whatever the
\* loader's own calls left)
RealDlopen == {RealOk(1), RealFail(NULL, ENOENT)}
DlopenNames ==
    {NullName, LIBC_SO, LIBC_SO \o <<".bak">>, <<"/lib/">> \o LIBC_SO, <<"libm.so.6">>}

EarlyStep(v) ==
    /\ ncalls < MaxEarlyCalls
    /\ ncalls' = ncalls + 1
    /\ cache' = v.cache
    /\ errno' = v.errno
    /\ obs' = v.obs
    /\ last' = v.last
    /\ UNCHANGED <<failUnexpected, breakaway, isRootPid, procVars, fdVars>>

Readlink ==
    \E path \in ReadlinkPaths, real \in RealReadlink :
        EarlyStep(readlink(obs, cache, errno, path, real))

Dlopen ==
    \E filename \in DlopenNames, real \in RealDlopen :
        EarlyStep(dlopen(obs, cache, errno, filename, real))

\* The process has just been loaded: no call has built the observer yet
InitEarly ==
    /\ \E cfg \in Configs :
        /\ failUnexpected = cfg.fail
        /\ breakaway = cfg.breakaway
        /\ isRootPid = cfg.root
    /\ errno \in {0, EIO}
    /\ cache = {}
    /\ last = NoCall
    /\ ncalls = 0
    /\ proc = ProcIdle
    /\ channel = <<>>
    /\ fds = FdsInit
    /\ obs = [ObsReady EXCEPT !.instance = FALSE]

NextEarly ==
    \/ Readlink
    \/ Dlopen

SpecEarly == InitEarly /\ [][NextEarly]_vars

----------------------------------------------------------------------------
(* A real function that dlsym did not resolve *)

ENOSYS == 38

\* real_##name is dlsym(RTLD_NEXT, #name), used by fwd_##name without a test.
\* A call through a null handle is undefined: the process is killed by the
\* fault, or the call comes back with some value and errno untouched.
NullHandleOutcomes ==
    {[killed |-> TRUE, ret |-> 0]} \cup {[killed |-> FALSE, ret |-> v] : v \in UndefinedInts}

\* chmod when real_chmod is null
chmod_unresolved(c, e, pathname, u) ==
    LET a == create_access(c, "SETMODE", pathname, EmptyPath, TRUE)
        v == chmod(c, e, pathname, RealOk(u.ret))
    IN  IF should_deny(a.check) \/ ~u.killed
        THEN [cache |-> v.cache, errno |-> v.errno, killed |-> FALSE,
              last |-> [resolved |-> FALSE] @@ v.last]
        ELSE [cache |-> a.cache, errno |-> e, killed |-> TRUE,
              last |-> [resolved |-> FALSE] @@
                       [v.last EXCEPT !.sent = <<>>, !.ret = 0, !.real = NoReal]]

\* chmod with real_chmod resolved
ChmodResolved ==
    /\ obs.run = "running"
    /\ Chmod

ChmodUnresolved ==
    \E pathname \in CallPaths, u \in NullHandleOutcomes :
        /\ obs.run = "running"
        /\ ncalls < MaxCalls
        /\ LET v == chmod_unresolved(cache, errno, pathname, u)
           IN  /\ cache' = v.cache
               /\ errno' = v.errno
               /\ last' = v.last
               /\ obs' = [obs EXCEPT !.run = IF v.killed THEN "killed" ELSE @]
        /\ ncalls' = ncalls + 1
        /\ UNCHANGED <<failUnexpected, breakaway, isRootPid, procVars, fdVars>>

NextDlsym ==
    \/ ChmodResolved
    \/ ChmodUnresolved

SpecDlsym == Init /\ [][NextDlsym]_vars

----------------------------------------------------------------------------
(* The dedup cache behind its timed mutex *)

\* Mutant: a caller that could not take the mutex treats the entry as present
IsCacheHit_timed_AssumesPresent(c, event, path, secondPath, acquired) ==
    IF acquired THEN IsCacheHit(c, event, path, secondPath)
    ELSE [hit |-> TRUE, cache |-> c]

\* IsCacheHit behind cacheMtx_: with the mutex, look up and insert; without
\* it (the budget ran out), answer "absent" and leave the cache alone
IsCacheHit_timed(c, event, path, secondPath, acquired) ==
    IF acquired THEN IsCacheHit(c, event, path, secondPath)
    ELSE [hit |-> FALSE, cache |-> c]

\* chmod once IsCacheHit has answered
chmod_timed(c, e, pathname, real, acquired) ==
    LET h == IsCacheHit_timed(c, "SETMODE", pathname, EmptyPath, acquired)
        a == IF h.hit
             THEN [check |-> sNotChecked, group |-> EmptyGroup]
             ELSE [check |-> PolicyCheck("SETMODE", pathname),
                   group |-> [reports |-> <<AccessReport("SETMODE", pathname,
                                               PolicyCheck("SETMODE", pathname))>>,
                              error |-> 0]]
        r == check_fwd_and_report(a.group, a.check, ERROR_RETURN_VALUE, real, e)
        v == Finished("chmod", "SETMODE", pathname, e, h.cache, h.hit, r, real,
                      ERROR_RETURN_VALUE)
    IN  [v EXCEPT !.last = [acquired |-> acquired] @@ v.last]

\* Another thread of the guest takes the mutex, and may keep it
OtherLocks ==
    /\ obs.mtx = "free"
    /\ obs' = [obs EXCEPT !.mtx = "other"]
    /\ UNCHANGED <<engineVars, procVars, fdVars>>

OtherUnlocks ==
    /\ obs.mtx = "other"
    /\ obs' = [obs EXCEPT !.mtx = "free"]
    /\ UNCHANGED <<engineVars, procVars, fdVars>>

\* The caller enters chmod and reaches IsCacheHit
EnterChmod ==
    \E pathname \in CallPaths :
        /\ obs.pc = "idle"
        /\ ncalls < MaxCalls
        /\ obs' = [obs EXCEPT !.pc = "lock", !.budget = MtxBudget, !.arg = pathname]
        /\ ncalls' = ncalls + 1
        /\ UNCHANGED <<failUnexpected, breakaway, isRootPid, errno, cache, last,
                       procVars, fdVars>>

\* try_lock_for: take the mutex if it is free, wait one tick of the budget
\* if it is not, give up when the budget is spent
TryLockFor ==
    /\ obs.pc = "lock"
    /\ obs' = IF obs.mtx = "free"
              THEN [obs EXCEPT !.pc = "call", !.acquired = TRUE]
              ELSE IF obs.budget > 0
              THEN [obs EXCEPT !.budget = @ - 1]
              ELSE [obs EXCEPT !.pc = "call", !.acquired = FALSE]
    /\ UNCHANGED <<engineVars, procVars, fdVars>>

\* The rest of the call: lookup (mutex released on return), check, forward,
\* report
FinishChmod ==
    \E real \in RealPathCall :
        /\ obs.pc = "call"
        /\ LET v == chmod_timed(cache, errno, obs.arg, real, obs.acquired)
           IN  /\ cache' = v.cache
               /\ errno' = v.errno
               /\ last' = v.last
        /\ obs' = [obs EXCEPT !.pc = "idle"]
        /\ UNCHANGED <<failUnexpected, breakaway, isRootPid, ncalls, procVars, fdVars>>

NextMtx ==
    \/ OtherLocks
    \/ OtherUnlocks
    \/ EnterChmod
    \/ TryLockFor
    \/ FinishChmod

\* The caller's own steps are taken; the other thread owes nothing
SpecMtx ==
    /\ Init
    /\ [][NextMtx]_vars
    /\ WF_vars(TryLockFor)
    /\ WF_vars(FinishChmod)

----------------------------------------------------------------------------
(* BuildReport: the line written to the channel *)

\* Text is a sequence of characters
Digits == <<"0", "1", "2", "3", "4", "5", "6", "7", "8", "9">>

\* %d
RECURSIVE Dec(_)
Dec(n) ==
    IF n < 0 THEN <<"-">> \o Dec(-n)
    ELSE IF n < 10 THEN <<Digits[n + 1]>>
    ELSE Dec(n \div 10) \o <<Digits[(n % 10) + 1]>>

\* snprintf(buffer, size, ...): at most size - 1 characters are stored
snprintf(size, text) ==
    IF Len(text) < size THEN text ELSE SubSeq(text, 1, size - 1)

progname == <<"c", "c">>
getpid == 12

\* "%s|%d|%d|%d|%d|%d|%d|%s|%d\n"
BuildReport(maxMessageLength, report, path) ==
    snprintf(maxMessageLength,
             progname \o <<"|">> \o Dec(IF report.pid < 0 THEN getpid ELSE report.pid)
                 \o <<"|">> \o Dec(report.requestedAccess)
                 \o <<"|">> \o Dec(report.status)
                 \o <<"|">> \o Dec(report.reportExplicitly)
                 \o <<"|">> \o Dec(report.error)
                 \o <<"|">> \o Dec(report.operation)
                 \o <<"|">> \o path
                 \o <<"|">> \o Dec(report.isDirectory) \o <<"\n">>)

\* Paths a guest can pass: any bytes but NUL
PathChars == {"a", "|", "\n"}
PathTexts == {<<>>} \cup {<<x>> : x \in PathChars} \cup {<<x, y>> : x, y \in PathChars}
AccessReports ==
    [pid : {-1, 7, 130}, requestedAccess : {1, 2}, status : {0, 1}, reportExplicitly : {0},
     error : {0, EPERM, ENOENT}, operation : {3, 15}, isDirectory : {0, 1}]
MaxMessageLength == 64

\* One record is built and written
SendOneReport ==
    \E report \in AccessReports, path \in PathTexts :
        /\ last = NoCall
        /\ last' = [w |-> "BuildReport", report |-> report, text |-> path,
                    line |-> BuildReport(MaxMessageLength, report, path)]
        /\ UNCHANGED <<failUnexpected, breakaway, isRootPid, errno, cache, ncalls,
                       procVars, fdVars, obsVars>>

NextReport ==
    \/ SendOneReport

SpecReport == Init /\ [][NextReport]_vars

----------------------------------------------------------------------------
(* Path normalisation *)

\* A path text is a sequence of components; an absolute one starts with "/".
\* The empty sequence is the empty string.  A file system is a set of
\* symbolic links [at: the link's absolute path, to: its target text].
IsAbsolute(text) == text # <<>> /\ Head(text) = "/"
Cwd == <<"/", "a">>

\* Step 3: "." and ".." resolved lexically; done is absolute
RECURSIVE Lexical(_, _)
Lexical(done, rest) ==
    IF rest = <<>> THEN done
    ELSE IF Head(rest) = "." THEN Lexical(done, Tail(rest))
    ELSE IF Head(rest) = ".."
    THEN Lexical(IF Len(done) > 1 THEN SubSeq(done, 1, Len(done) - 1) ELSE done, Tail(rest))
    ELSE Lexical(done \o <<Head(rest)>>, Tail(rest))

LinkAt(fs, path) == CHOOSE l \in fs : l.at = path
IsLink(fs, path) == \E l \in fs : l.at = path

\* Step 4: symbolic links resolved with readlink, component by component;
\* the final component only when followFinal.  fuel bounds the number of
\* links followed.
RECURSIVE ResolveLinks(_, _, _, _, _)
ResolveLinks(done, rest, fs, followFinal, fuel) ==
    IF rest = <<>> THEN done
    ELSE IF Head(rest) = "." THEN ResolveLinks(done, Tail(rest), fs, followFinal, fuel)
    ELSE IF Head(rest) = ".."
    THEN ResolveLinks(IF Len(done) > 1 THEN SubSeq(done, 1, Len(done) - 1) ELSE done,
                      Tail(rest), fs, followFinal, fuel)
    ELSE LET cand == done \o <<Head(rest)>>
         IN  IF IsLink(fs, cand) /\ (Tail(rest) # <<>> \/ followFinal) /\ fuel > 0
             THEN LET to == LinkAt(fs, cand).to
                  IN  IF IsAbsolute(to)
                      THEN ResolveLinks(<<"/">>, Tail(to) \o Tail(rest), fs, followFinal,
                                        fuel - 1)
                      ELSE ResolveLinks(done, to \o Tail(rest), fs, followFinal, fuel - 1)
             ELSE ResolveLinks(cand, Tail(rest), fs, followFinal, fuel)

\* Mutant: readlink is called once on the final component and its answer is
\* taken as it is
normalize_at_OneReadlink(dirfd, path, flags, fs) ==
    IF path = <<>> THEN <<>>
    ELSE LET start == IF IsAbsolute(path) THEN path
                      ELSE IF dirfd = AT_FDCWD THEN Cwd \o path
                      ELSE <<"/">> \o fd_to_path(dirfd) \o path
             lex == Lexical(<<"/">>, Tail(start))
         IN  IF flags # O_NOFOLLOW /\ IsLink(fs, lex)
             THEN (IF IsAbsolute(LinkAt(fs, lex).to) THEN LinkAt(fs, lex).to
                   ELSE SubSeq(lex, 1, Len(lex) - 1) \o LinkAt(fs, lex).to)
             ELSE lex

\* normalize_path_at with the file system it reads: empty path, start
\* directory, lexical step, links
normalize_at(dirfd, path, flags, fs) ==
    IF path = <<>> THEN <<>>
    ELSE LET start == IF IsAbsolute(path) THEN path
                      ELSE IF dirfd = AT_FDCWD THEN Cwd \o path
                      ELSE <<"/">> \o fd_to_path(dirfd) \o path
             lex == Lexical(<<"/">>, Tail(start))
         IN  ResolveLinks(<<"/">>, Tail(lex), fs, flags # O_NOFOLLOW, MaxLinks)

\* normalize_path: a null pathname gives empty_str_
normalize_path(pathname, oflags, fs) ==
    IF pathname.null THEN <<>>
    ELSE normalize_at(AT_FDCWD, pathname.text, oflags, fs)

Components == {"a", "l", "m", ".", ".."}
PathInputs ==
    {<<>>} \cup {<<x>> : x \in Components} \cup {<<x, y>> : x, y \in Components}
           \cup {<<"/">>} \cup {<<"/", x>> : x \in Components}
           \cup {<<"/", x, y>> : x, y \in Components}
\* No link; /l -> /a; /l -> /m -> /a; /a/l -> ../m with /m -> /a/a
FileSystems ==
    {{},
     {[at |-> <<"/", "l">>, to |-> <<"/", "a">>]},
     {[at |-> <<"/", "l">>, to |-> <<"/", "m">>], [at |-> <<"/", "m">>, to |-> <<"/", "a">>]},
     {[at |-> <<"/", "a", "l">>, to |-> <<"..", "m">>],
      [at |-> <<"/", "m">>, to |-> <<"/", "a", "a">>]}}

Normalize ==
    \E dirfd \in Dirfds, path \in PathInputs, flags \in {0, O_NOFOLLOW}, fs \in FileSystems :
        /\ last = NoCall
        /\ LET r == normalize_at(dirfd, path, flags, fs)
           IN  last' = [w |-> "normalize_path_at", dirfd |-> dirfd, text |-> path,
                        flags |-> flags, fs |-> fs, out |-> r,
                        again |-> normalize_at(dirfd, r, flags, fs)]
        /\ UNCHANGED <<failUnexpected, breakaway, isRootPid, errno, cache, ncalls,
                       procVars, fdVars, obsVars>>

NormalizePath ==
    \E null \in BOOLEAN, path \in PathInputs, flags \in {0, O_NOFOLLOW}, fs \in FileSystems :
        /\ last = NoCall
        /\ LET r == normalize_path([null |-> null, text |-> path], flags, fs)
           IN  last' = [w |-> "normalize_path", dirfd |-> AT_FDCWD,
                        text |-> IF null THEN <<>> ELSE path, null |-> null,
                        flags |-> flags, fs |-> fs, out |-> r,
                        again |-> normalize_path([null |-> FALSE, text |-> r], flags, fs)]
        /\ UNCHANGED <<failUnexpected, breakaway, isRootPid, errno, cache, ncalls,
                       procVars, fdVars, obsVars>>

NextNormalize ==
    \/ Normalize
    \/ NormalizePath

SpecNormalize == Init /\ [][NextNormalize]_vars

----------------------------------------------------------------------------
(* Leaving the process: fatal init failure, _exit, the on_exit handler *)

Environ == <<"PATH=/bin", "LD_PRELOAD=libDetours">>

\* _fatal_undefined_env: the diagnostic, with the whole environment
Diagnostic(name) == [text |-> "Env var not set", name |-> name, environment |-> Environ]

\* BxlObserver::GetInstance() entered again while the constructor of the
\* singleton is still running.  What then happens is not defined: the
\* constructor runs again ("recurse"), the runtime aborts the process
\* ("abort") or waits for the initialisation for ever ("hang"), or the
\* caller gets the object as far as it is built ("partial").
ReentryOutcomes == {"recurse", "abort", "hang", "partial"}

\* What an exit path consults besides the fields fixed at init
ExitTouches(checkCache) == IF checkCache THEN {"cacheMtx_", "cache_"} ELSE {}

\* The first GetInstance() of the process (from _bxl_linux_sandbox_init or
\* from the first hooked call): the constructor reads the environment
Construct ==
    /\ obs.run = "running" /\ ~obs.instance /\ ~obs.building /\ obs.pc = "idle"
    /\ obs' = IF obs.envSet THEN [obs EXCEPT !.instance = TRUE]
                            ELSE [obs EXCEPT !.building = TRUE, !.pc = "fatal"]
    /\ UNCHANGED <<engineVars, procVars, fdVars>>

\* _fatal: real_fprintf(stderr, ...), then _exit(1) -- the interposed _exit
Fatal ==
    /\ obs.run = "running" /\ obs.pc = "fatal"
    /\ obs' = [obs EXCEPT !.stderr = Append(@, Diagnostic("__BUILDXL_FAM_PATH")),
                          !.pc = "_exit"]
    /\ UNCHANGED <<engineVars, procVars, fdVars>>

\* The interposed _exit(1) called by _fatal: INTERPOSE calls GetInstance()
\* while the constructor is running
ExitAfterFatal ==
    \E outcome \in ReentryOutcomes, reported \in BOOLEAN :
        /\ obs.run = "running" /\ obs.pc = "_exit" /\ obs.building
        /\ (reported => outcome = "partial")
        /\ obs' = CASE outcome = "recurse" ->
                         IF obs.depth < MaxDepth
                         THEN [obs EXCEPT !.depth = @ + 1, !.pc = "fatal"]
                         ELSE [obs EXCEPT !.run = "killed"]
                    [] outcome = "abort" ->
                         [obs EXCEPT !.run = "killed"]
                    [] outcome = "hang" -> [obs EXCEPT !.run = "hung"]
                    [] OTHER -> [obs EXCEPT !.run = "exited", !.status = 1]
        /\ last' = [NoCall EXCEPT !.w = "_exit", !.event = "EXIT",
                                   !.sent = IF reported THEN exit_wrapper(cache).sent
                                            ELSE <<>>]
        /\ cache' = IF outcome = "partial" THEN exit_wrapper(cache).cache ELSE cache
        /\ UNCHANGED <<failUnexpected, breakaway, isRootPid, errno, ncalls, procVars, fdVars>>

\* A call of the guest while the observer is up
ChmodBeforeExit ==
    /\ obs.run = "running" /\ obs.instance
    /\ Chmod

\* The interposed _exit(status): report_access("_exit", EXIT, "", ""), whose
\* checkCache keeps its default, then real__exit(status)
Exit_ ==
    \E status \in {0, 1} :
        /\ obs.run = "running" /\ obs.instance
        /\ LET r == exit_wrapper(cache)
           IN  /\ cache' = r.cache
               /\ last' = [touches |-> ExitTouches(TRUE)] @@
                          [NoCall EXCEPT !.w = "_exit", !.event = "EXIT", !.hit = r.hit,
                                         !.sent = r.sent, !.realCalls = 1]
        /\ obs' = [obs EXCEPT !.run = "exited", !.status = status]
        /\ UNCHANGED <<failUnexpected, breakaway, isRootPid, errno, ncalls, procVars, fdVars>>

\* exit(status) or return from main: the on_exit handler report_exit calls
\* SendExitReport
AtExit ==
    \E status \in {0, 1} :
        /\ obs.run = "running" /\ obs.instance
        /\ last' = [touches |-> ExitTouches(FALSE)] @@
                   [NoCall EXCEPT !.w = "report_exit", !.event = "EXIT",
                                  !.sent = SendExitReport]
        /\ obs' = [obs EXCEPT !.run = "exited", !.status = status]
        /\ UNCHANGED <<failUnexpected, breakaway, isRootPid, errno, cache, ncalls,
                       procVars, fdVars>>

InitExit ==
    /\ \E cfg \in Configs :
        /\ failUnexpected = cfg.fail
        /\ breakaway = cfg.breakaway
        /\ isRootPid = cfg.root
    /\ errno \in {0, EIO}
    /\ cache = {}
    /\ last = NoCall
    /\ ncalls = 0
    /\ proc = ProcIdle
    /\ channel = <<>>
    /\ fds = FdsInit
    /\ \E set \in BOOLEAN : obs = [ObsReady EXCEPT !.instance = FALSE, !.envSet = set]

NextExit ==
    \/ Construct
    \/ Fatal
    \/ ExitAfterFatal
    \/ ChmodBeforeExit
    \/ Exit_
    \/ AtExit

SpecExit == InitExit /\ [][NextExit]_vars

----------------------------------------------------------------------------
(* Claims *)

\* The check the last call got from create_access: the policy's answer
\* unless the dedup cache answered first
LastCheck == [deny |-> last.polDeny /\ ~last.hit, checked |-> ~last.hit]

\* C1: in every wrapper built on check_fwd_and_report, when should_deny(check)
\* is true the real function is not called, the group's errno is EPERM, the
\* group is sent exactly once, and the wrapper returns its error value with
\* errno = EPERM.
C1_DeniedCallSkipsRealAndReportsEPERM ==
    (last.w \in CheckFwdWrappers /\ should_deny(LastCheck)) =>
        /\ last.realCalls = 0
        /\ Len(last.sent) = 1
        /\ last.sent[1].error = EPERM
        /\ Len(Records) = 1
        /\ Records[1].error = EPERM
        /\ last.ret = last.error_val
        /\ errno = EPERM

C1_Witness ==
    /\ last.w \in CheckFwdWrappers
    /\ should_deny(LastCheck)
    /\ last.error_val = NULL
    /\ last.pre = EIO
    /\ last.realCalls = 0

\* C2: in every path- or descriptor-based wrapper the policy decision comes
\* before the real operation, and a deny under fail-unexpected-accesses skips
\* the real operation; the stat and printf families included.
C2_DenySkipsRealInEveryWrapper ==
    (last.w # "none" /\ IsEnabled /\ failUnexpected /\ last.polDeny /\ ~last.hit) =>
        last.realCalls = 0

\* C4: the errno of every report of a forwarded call is the errno the real
\* call set when it failed and 0 when it succeeded, whatever errno was before.
C4_ReportErrnoIsRealErrnoOrZero ==
    (last.realCalls > 0) =>
        \A i \in DOMAIN Records :
            Records[i].error = IF last.real.failed THEN last.real.err ELSE 0

\* C6: when the check denies but fail-unexpected-accesses is off, the real
\* call is forwarded once, its result is returned unchanged, and the report
\* carries the real errno (0 on success).
C6_WarnOnlyForwardsAndReportsRealErrno ==
    (last.w \in CheckFwdWrappers /\ LastCheck.deny /\ ~failUnexpected) =>
        /\ last.realCalls = 1
        /\ last.ret = last.real.ret
        /\ Len(Records) = 1
        /\ Records[1].error = IF last.real.failed THEN last.real.err ELSE 0

\* C7: every intercepted call emits exactly one primary report (the wrappers
\* of this specification are single-path), vprintf, vfprintf, printf and
\* fprintf included.  Stated for calls the dedup cache did not answer.
C7_ExactlyOneReportPerCall ==
    (last.w # "none" /\ ~last.hit) => Len(Records) = 1

\* C8: two successive calls with the same (event, path, second path) tuple and
\* cache checking on emit one report in total: the first inserts the tuple
\* and emits its record, the second finds the tuple and emits none.
C8_TwoSuccessiveCallsOneReport ==
    [][(/\ last.w # "none" /\ ~last.hit
        /\ last'.w # "none" /\ last'.hit
        /\ last'.event = last.event /\ last'.path = last.path)
       => Len(Flatten(last.sent)) + Len(Flatten(last'.sent)) = 1]_vars

\* C3: a denied renameat/rename and a denied copy_file_range return -1 with
\* errno = EPERM, and the report they emit carries errno EPERM.
C3_HandWrittenDenialReportsEPERM ==
    (last.w \in HandWrittenWrappers /\ last.denied) =>
        /\ last.ret = ERROR_RETURN_VALUE
        /\ errno = EPERM
        /\ \A i \in DOMAIN Records : Records[i].error = EPERM

\* C5: after an intercepted call the guest's errno is what the real call
\* left: the pre-call value when it succeeded, the real errno when it failed.
C5_GuestErrnoIsWhatRealCallLeft ==
    (last.realCalls > 0) =>
        errno = IF last.real.failed THEN last.real.err ELSE last.pre

----------------------------------------------------------------------------
(* Process lifecycle claims, over the channel *)

RecordsOf(p) == SelectSeq(channel, LAMBDA r : r.pid = p)

\* C9: for every process created through fork or clone, the first record
\* from that pid on the channel is its FORK record, at every depth of the
\* process tree.
C9_FirstRecordOfChildIsFork ==
    \A q \in 1..MaxPid :
        (proc[q].origin \in {"fork", "clone"} /\ RecordsOf(q) # <<>>)
            => RecordsOf(q)[1].op = "FORK"

\* C10: the EXIT record is the last record of its pid: nothing from that pid
\* follows it on the channel, under any interleaving of the guest's threads.
C10_ExitIsLastRecordOfPid ==
    \A i \in DOMAIN channel, j \in DOMAIN channel :
        (i < j /\ channel[i].op = "EXIT") => channel[j].pid # channel[i].pid

----------------------------------------------------------------------------
(* Exec claims *)

\* C11: on every branch of an exec wrapper that forwards to a real exec
\* function, the environment the new image receives comes from ensureEnvs
\* and so names the sandbox library in LD_PRELOAD.
C11_ForwardedExecKeepsSandboxInPreload ==
    (last.w \in ExecWrappers /\ last.fn \notin {"ptrace", "none"}) =>
        SandboxLib \in last.given.preload

\* C12: an exec call whose target is statically linked is never forwarded
\* through libc: it is handed to the ptrace driver on every branch of every
\* wrapper, the branches of a failed PATH resolution included.
C12_StaticTargetAlwaysHandedToPtrace ==
    (last.w \in ExecWrappers /\ last.static /\ last.fn # "none") =>
        last.fn = "ptrace"

\* C13: on the ptrace handoff the descriptor table is cleared, the sandbox
\* library is removed from LD_PRELOAD (other entries and the configuration
\* variables kept), the driver is invoked with (path, argv, stripped envp,
\* queue name, manifest path), then exactly one EXEC report carrying the
\* driver's errno is emitted, and the wrapper returns the driver's result.
C13_HandoffStepsInOrder ==
    (last.w \in ExecWrappers /\ last.handoff) =>
        /\ \A fd \in TrackedFds : fds.table[fd] = EmptyPath
        /\ Len(last.steps) = 4
        /\ last.steps[1].op = "reset_fd_table"
        /\ last.steps[2].op = "RemoveLDPreloadFromEnv"
        /\ last.steps[3] = [op |-> "ExecuteWithPTraceSandbox", file |-> last.file,
                            envp |-> [preload |-> last.given.preload \ {SandboxLib},
                                      cfg |-> TRUE],
                            mq |-> PTraceMqName, fam |-> FamPath]
        /\ last.steps[4].op = "report_exec"
        /\ Len(Records) = 1
        /\ Records[1].op = "EXEC"
        /\ Records[1].error = (IF last.driver.failed THEN last.driver.err ELSE last.pre)
        /\ last.ret = last.driver.ret

----------------------------------------------------------------------------
(* Descriptor table claims *)

\* C14: in one thread, a lookup never returns a cached path for a
\* descriptor whose most recent observed event is a close: the close clears
\* the entry, and an open or dup returning the same number clears it again
\* before any lookup.
C14_NoCachedPathAfterClose ==
    /\ \A fd \in TrackedFds : fds.ev[fd] = "close" => fds.table[fd] = EmptyPath
    /\ (last.w = "write" /\ last.cached) => fds.ev[last.fd] # "close"
    /\ (last.w \in {"open", "creat", "dup", "dup2"} /\ last.fd \in TrackedFds)
          => fds.table[last.fd] = EmptyPath
    /\ \A fd \in TrackedFds : fds.table[fd] # EmptyPath => fds.table[fd] = fds.open[fd]

C14_Witness ==
    /\ last.w = "write"
    /\ ~last.cached
    /\ last.path = EmptyPath
    /\ fds.ev[last.fd] = "close"
    /\ <<"WRITE", OkPath, EmptyPath>> \in cache

\* C15: with threads sharing a descriptor, no interleaving of close(fd)
\* with a descriptor call on fd leaves a cached path in the table for fd
\* once the real close has completed.
C15_NoEntryOnceRealCloseCompleted ==
    \A fd \in TrackedFds :
        (fds.ev[fd] = "close" /\ fds.open[fd] = EmptyPath /\ fds.closing # fd)
            => fds.table[fd] = EmptyPath

----------------------------------------------------------------------------
(* Rename claims *)

IsRename == last.w \in {"renameat", "rename"}

\* C17: a rename of a directory whose enumeration succeeds and that is not
\* denied calls the real renameat once and then sends every buffered report
\* group, two per enumerated entry: UNLINK of the source entry, then
\* CREATE/WRITE of the entry under the new name, each with the real errno
\* (0 on success).  A group the dedup cache answered holds no record; in a
\* first call every group holds one.
C17_DirectoryRenameSendsPairsAfterRealCall ==
    (IsRename /\ last.isDir /\ last.enumerateResult /\ ~last.denied) =>
        LET l == last.filesAndDirectories IN
        /\ last.realCalls = 1
        /\ Len(last.sent) = 2 * Len(l)
        /\ \A k \in DOMAIN l :
              LET src == last.sent[2 * k - 1]
                  dst == last.sent[2 * k]
              IN  /\ \A i \in DOMAIN src.reports :
                        /\ src.reports[i].op = "UNLINK"
                        /\ src.reports[i].path = l[k]
                  /\ \A i \in DOMAIN dst.reports :
                        /\ dst.reports[i].op \in {"CREATE", "WRITE"}
                        /\ dst.reports[i].path = ReplacePrefix(l[k], last.path, last.newStr)
                  /\ Len(src.reports) <= 1 /\ Len(dst.reports) <= 1
                  /\ src.error = (IF last.real.failed THEN last.real.err ELSE 0)
                  /\ dst.error = (IF last.real.failed THEN last.real.err ELSE 0)
        /\ ncalls = 1 => Len(Records) = 2 * Len(l)

C17_Witness ==
    /\ IsRename /\ last.isDir /\ last.enumerateResult /\ ~last.denied
    /\ Len(last.filesAndDirectories) = 3
    /\ last.real.failed
    /\ Len(Records) = 6
    /\ Records[5].op = "UNLINK" /\ Records[6].op = "CREATE"
    /\ Records[6].error = last.real.err

\* C18: a denied rename never calls the real renameat and emits exactly one
\* record, the record of a path whose own check denied.
C18_DeniedRenameSendsTheDenialWitness ==
    (IsRename /\ last.denied) =>
        /\ last.realCalls = 0
        /\ Len(Records) = 1
        /\ Records[1].status = "denied"

----------------------------------------------------------------------------
(* Two-path operations and the empty path *)

\* C19: a rename of a non-directory, a link and a symlink each emit one
\* record for the source path followed by one record for the destination
\* path, and deny exactly when the combination of the two paths' checks
\* must be denied.  Stated for a first call (empty dedup cache).
C19_TwoPathOpsEmitSourceThenDestination ==
    LET twoPath == last.w \in {"link", "symlink"} \/ (IsRename /\ ~last.isDir)
        src == IF IsRename THEN last.path ELSE last.src
        dst == IF IsRename THEN last.newStr ELSE last.dst
    IN  (ncalls = 1 /\ twoPath) =>
            /\ last.denied = should_deny(Combine(PolicyCheck(last.event, src),
                                                 PolicyCheck(last.event, dst)))
            /\ ~last.denied =>
                  /\ Len(Records) = 2
                  /\ Records[1].path = src
                  /\ Records[2].path = dst

\* C20: unlink("") and unlinkat(AT_FDCWD, "") are forwarded once with no
\* policy check and no report and give the real result and errno; unlinkat
\* of an empty path with another dirfd is checked and reported (a repeated
\* call is answered by the dedup cache, as for any unlinkat).
C20_EmptyPathUnlink ==
    (last.w \in {"unlink", "unlinkat"} /\ last.src = EmptyPath) =>
        IF last.dirfd = AT_FDCWD
        THEN /\ last.realCalls = 1
             /\ ~last.checked
             /\ last.sent = <<>>
             /\ last.ret = last.real.ret
             /\ errno = (IF last.real.failed THEN last.real.err ELSE last.pre)
        ELSE /\ Len(last.sent) = 1
             /\ last.realCalls = 1
             /\ ~last.hit =>
                   /\ last.checked
                   /\ Len(Records) = 1
                   /\ Records[1].op = "UNLINK"
                   /\ Records[1].error = (IF last.real.failed THEN last.real.err ELSE 0)

C20_Witness ==
    /\ last.w = "unlinkat"
    /\ last.src = EmptyPath
    /\ last.dirfd = AT_FDCWD
    /\ last.real.failed
    /\ errno = ENOENT
    /\ last.pre # ENOENT
    /\ last.sent = <<>>

----------------------------------------------------------------------------
(* Short circuits and special cases *)

\* C21: readlink("/etc/malloc.conf") returns -1 with errno ENOENT in every
\* state, also before the observer exists: it leaves the observer as it was
\* (not built if it was not), calls no real function, changes no cache and
\* emits no report.
C21_MallocConfReadlinkTouchesNothing ==
    [][(ncalls' # ncalls /\ last'.w = "readlink" /\ last'.given = MallocConf) =>
          /\ last'.ret = -1
          /\ errno' = ENOENT
          /\ last'.realCalls = 0
          /\ last'.sent = <<>>
          /\ obs' = obs
          /\ cache' = cache
          /\ fds' = fds
          /\ channel' = channel]_vars

C21_Witness ==
    /\ last.w = "readlink"
    /\ last.given = MallocConf
    /\ ~obs.instance
    /\ last.pre = EIO
    /\ errno = ENOENT
    /\ last.ret = -1

\* C26: dlopen of the guest libc is passed to the real dlopen as NULL; every
\* other file name, NULL included, is passed unchanged, with errno as the
\* real call left it.
C26_OnlyLibcIsRedirected ==
    (last.w = "dlopen") =>
        /\ last.realCalls = 1
        /\ last.given = LIBC_SO => last.passed = NullName
        /\ last.given # LIBC_SO =>
              /\ last.passed = last.given
              /\ errno = (IF last.real.failed THEN last.real.err ELSE last.pre)

\* C22: when the real function's handle was not resolved, the wrapper
\* returns -1 with errno ENOSYS, still emits its report, and does not call
\* through the null handle.
C22_UnresolvedHandleGivesENOSYS ==
    (last.w = "chmod" /\ "resolved" \in DOMAIN last /\ ~last.denied) =>
        /\ obs.run = "running"
        /\ last.ret = -1
        /\ errno = ENOSYS
        /\ last.realCalls = 0
        /\ Len(last.sent) = 1

----------------------------------------------------------------------------
(* Dedup cache *)

\* C23: a call never waits for the dedup mutex for ever: a call inside
\* IsCacheHit always gets out and returns, and one that could not take the
\* mutex within its budget goes on as if the entry were absent: it is
\* checked, forwarded unless denied, and reported.
C23_DedupMutexNeverBlocksACall ==
    /\ (obs.pc = "lock") ~> (obs.pc = "idle")
    /\ [](("acquired" \in DOMAIN last /\ ~last.acquired) =>
            /\ ~last.hit
            /\ last.denied = should_deny(PolicyCheck("SETMODE", last.path))
            /\ last.realCalls = (IF last.denied THEN 0 ELSE 1)
            /\ Len(Records) = 1
            /\ Records[1].path = last.path)

C23_Witness ==
    /\ "acquired" \in DOMAIN last
    /\ ~last.acquired
    /\ obs.mtx = "other"
    /\ obs.pc = "idle"
    /\ last.realCalls = 1
    /\ Len(Records) = 1

----------------------------------------------------------------------------
(* The record format *)

\* The fields of a line: the text between separators
RECURSIVE SplitAt(_, _, _)
SplitAt(text, sep, field) ==
    IF text = <<>> THEN <<field>>
    ELSE IF Head(text) = sep THEN <<field>> \o SplitAt(Tail(text), sep, <<>>)
    ELSE SplitAt(Tail(text), sep, field \o <<Head(text)>>)

\* C24: every record is exactly one line of nine fields (program name, pid,
\* requested access, status, explicit flag, errno, operation, path,
\* is-directory) joined by '|' and ended by one newline, whatever the path
\* holds; the pid is the report's, or the process's own when the report's
\* is negative.
C24_RecordIsOneLineOfNineFields ==
    (last.w = "BuildReport") =>
        LET lines == SplitAt(last.line, "\n", <<>>)
            r == last.report
        IN  /\ Len(lines) = 2
            /\ lines[2] = <<>>
            /\ SplitAt(lines[1], "|", <<>>) =
                  <<progname, Dec(IF r.pid < 0 THEN getpid ELSE r.pid),
                    Dec(r.requestedAccess), Dec(r.status), Dec(r.reportExplicitly),
                    Dec(r.error), Dec(r.operation), last.text, Dec(r.isDirectory)>>

----------------------------------------------------------------------------
(* Normalisation *)

IsNormalize == last.w \in {"normalize_path", "normalize_path_at"}

----------------------------------------------------------------------------
(* Exit paths *)

\* C27: after a fatal init failure the process ends with status 1 and one
\* diagnostic that holds the full environment; nothing (no re-entry into
\* the observer, no recursion through the interposed _exit) keeps it from
\* ending, and no access report is sent after the failure.
C27_FatalInitExitsWithStatusOne ==
    obs.building =>
        /\ obs.run \in {"running", "exited"}
        /\ obs.run = "exited" => obs.status = 1
        /\ Len(obs.stderr) <= 1
        /\ \A i \in DOMAIN obs.stderr : obs.stderr[i].environment = Environ
        /\ obs.depth = 0
        /\ last.sent = <<>>

\* C28: the on_exit handler and the interposed _exit emit the EXIT record
\* from fields fixed at init alone: neither consults the descriptor table
\* or the dedup cache, neither takes the dedup mutex.
C28_ExitPathsUseOnlyImmutableFields ==
    ("touches" \in DOMAIN last) =>
        /\ last.touches = {}
        /\ Len(Records) = 1
        /\ Records[1].op = "EXIT"

----------------------------------------------------------------------------
(* Dedup and enforcement *)

\* C29: a call the policy denies (fail-unexpected-accesses set) is skipped
\* and returns EPERM every time it is issued, also when the same tuple was
\* already reported and the dedup cache answers with the not-checked result.
C29_DedupNeverWeakensEnforcement ==
    (last.w # "none" /\ IsEnabled /\ failUnexpected /\ last.polDeny /\ last.hit) =>
        /\ last.realCalls = 0
        /\ last.ret = last.error_val
        /\ errno = EPERM

----------------------------------------------------------------------------
(* The forwarding branch of the exec wrappers *)

----------------------------------------------------------------------------
(* The ptrace handoff seen by the guest *)

\* C31: every exec wrapper that hands off to the ptrace driver returns the
\* driver's result, fexecve included, and the path fexecve hands to the
\* driver is the path its descriptor resolved to.
C31_HandoffReturnsDriverResult ==
    (last.w \in ExecWrappers /\ last.handoff) =>
        /\ last.ret = last.driver.ret
        /\ last.steps[3].file = last.file

----------------------------------------------------------------------------
(* Rename of a directory that could not be enumerated *)

\* C32: when the enumeration of the renamed directory fails, renameat
\* builds one RENAME event on (source, destination); exactly one report
\* group is sent, it holds RENAME records only, and in a first call its
\* records are the source then the destination and the check of that one
\* event decides whether the real renameat is skipped or called once.
C32_FailedEnumerationFallsBackToOneRename ==
    (IsRename /\ last.isDir /\ ~last.enumerateResult) =>
        /\ Len(last.sent) = 1
        /\ \A i \in DOMAIN Records : Records[i].op = "RENAME"
        /\ last.realCalls = (IF last.denied THEN 0 ELSE 1)
        /\ ncalls = 1 =>
            /\ Len(Records) = 2
            /\ Records[1].path = last.path
            /\ Records[2].path = last.newStr
            /\ last.denied = should_deny(Combine(PolicyCheck("RENAME", last.path),
                                                 PolicyCheck("RENAME", last.newStr)))

C32_Witness ==
    /\ IsRename /\ last.isDir /\ ~last.enumerateResult
    /\ ncalls = 1
    /\ last.denied
    /\ Records[1].status = "allowed"
    /\ Records[2].path = DenyPath

----------------------------------------------------------------------------
(* Exact invalidation of the descriptor table *)

\* C33: close clears the entry of the closed descriptor, dup2 the entry of
\* newfd, open, creat and dup the entry of the descriptor they return; each
\* leaves every other entry as it was, and a call that returns no new
\* descriptor (a failed open, a name_to_handle_at) leaves the whole table
\* as it was.
C33_InvalidationIsExact ==
    [][(ncalls' # ncalls
        /\ last'.w \in {"open", "creat", "close", "dup", "dup2", "name_to_handle_at"}) =>
          LET target == IF last'.w = "name_to_handle_at" THEN -1 ELSE last'.fd
          IN  \A fd \in DOMAIN fds.table :
                  fds'.table[fd] = IF fd = target THEN EmptyPath ELSE fds.table[fd]]_vars

----------------------------------------------------------------------------
(* fork and clone *)

----------------------------------------------------------------------------
(* Directory creation and removal *)

\* C35: mkdir, mkdirat and rmdir go around the dedup cache: every attempt,
\* a repeated one on the same path included, leaves the cache as it was and
\* sends its own record, which carries the errno of that attempt.
C35_DirectoryCallsBypassDedup ==
    [][(ncalls' # ncalls /\ last'.w \in {"mkdir", "mkdirat", "rmdir"}) =>
          LET sent == Flatten(last'.sent) IN
          /\ cache' = cache
          /\ ~last'.hit
          /\ Len(sent) = 1
          /\ sent[1].op = (IF last'.w = "rmdir" THEN "UNLINK" ELSE "CREATE")
          /\ sent[1].path = last'.path
          /\ sent[1].error = (IF last'.denied THEN EPERM
                              ELSE IF last'.real.failed THEN last'.real.err ELSE 0)]_vars

C35_Witness ==
    /\ last.w = "rmdir" /\ "prev" \in DOMAIN last
    /\ last.prev.w = "rmdir" /\ last.prev.path = last.path /\ last.prev.ret = 0
    /\ last.real.failed
    /\ Len(Records) = 1
    /\ Records[1].error = last.real.err

----------------------------------------------------------------------------
(* One EXIT record per process *)

ExitRecordsOf(p) == SelectSeq(channel, LAMBDA r : r.pid = p /\ r.op = "EXIT")

\* C36: a process that terminates through exit() or through the interposed
\* _exit() has written exactly one EXIT record: the on_exit handler writes
\* it on exit(), the _exit wrapper writes it before real__exit, and no way
\* of terminating writes two or none.
C36_ExactlyOneExitRecord ==
    \A p \in 1..MaxPid :
        proc[p].state \in {"exiting", "dead"} => Len(ExitRecordsOf(p)) = 1

----------------------------------------------------------------------------
(* What copy_file_range closes *)

\* C37: copy_file_range closes the two descriptors of the pipe it created
\* and nothing else: on every path that reaches the exit label before the
\* pipe exists (denial, flags # 0, overlapping range, pipe() failed) no
\* descriptor of the guest is closed and no entry of the descriptor table
\* is cleared.
C37_CopyClosesOnlyItsOwnPipe ==
    [][(ncalls' # ncalls /\ last'.w = "copy_file_range"
        /\ last'.closes # <<"pipe", "pipe">>) =>
          /\ fds'.open = fds.open
          /\ fds'.table = fds.table]_vars

----------------------------------------------------------------------------
(* The overlap check of copy_file_range *)

\* C38: with fd_in = fd_out, copy_file_range fails with EINVAL exactly when
\* the source range [off_in, off_in + len) and the destination range
\* [off_out, off_out + len) have a byte in common: adjacent ranges and empty
\* ranges at distinct offsets pass, and the arithmetic on offsets does not
\* wrap.
C38_EINVALIffRangesOverlap ==
    ("off_in" \in DOMAIN last) =>
        (last.EINVAL <=>
            \E b \in 0 .. (2 ^ (OffBits + 1)) :
                /\ last.off_in <= b /\ b < last.off_in + last.len
                /\ last.off_out <= b /\ b < last.off_out + last.len)

----------------------------------------------------------------------------
(* Children that may break away *)

\* The wrappers that act on should_deny through check_fwd_and_report
CheckedWrappers == {"chmod", "write", "fread", "readdir", "readdir_r"}

\* C39: when children may break away, a process that is not the root
\* process is never denied: should_deny is false for every check and every
\* intercepted call reaches the real function whatever the policy says; in
\* the root process a denial is decided as without the flag.
C39_BreakawayChildIsNeverDenied ==
    /\ \A chk \in {Invalid, PolicyCheck("SETMODE", OkPath), PolicyCheck("SETMODE", DenyPath)} :
           should_deny(chk) = IF breakaway /\ ~isRootPid THEN FALSE
                              ELSE chk.deny /\ failUnexpected
    /\ (last.w # "none" /\ breakaway /\ ~isRootPid) =>
           /\ ~last.denied
           /\ last.realCalls = 1
           /\ last.ret = last.real.ret
    /\ (last.w \in CheckedWrappers /\ isRootPid) =>
           (last.denied <=> (failUnexpected /\ last.polDeny /\ ~last.hit))

C39_Witness ==
    /\ breakaway /\ ~isRootPid /\ failUnexpected
    /\ last.w = "chmod" /\ last.polDeny /\ ~last.hit
    /\ last.realCalls = 1
    /\ last.ret = last.real.ret
    /\ Len(Records) = 1
    /\ Records[1].status = "denied"

====
